---- MODULE Spec2Model ----
(***************************************************************************)
(* Depth-aware node cache of the Figma context service.                    *)
(*                                                                         *)
(*   LRUCache        src/src/tests/simplify-node-response.test.ts:588-705  *)
(*   ParseDataCache  src/unnamed/part_002                                  *)
(*   FigmaService    src/src/services/figma.ts                             *)
(*                                                                         *)
(* Strings are modelled as sequences of one-character strings, so that     *)
(* startsWith, split(':') and parseInt are computed as the code computes   *)
(* them.  An optional value is a sequence of length at most one.           *)
(***************************************************************************)
EXTENDS Integers, Sequences, FiniteSets, TLC

\* Largest capacity handed to the constructor in the model.
MaxCap == 2

\* null / undefined for references that hold a key
Null == <<>>
\* an absent optional value, and a present one
None == <<>>
Some(x) == <<x>>

(***************************************************************************)
(* Strings                                                                 *)
(***************************************************************************)
Colon == <<":">>
DefaultTag == <<"d", "e", "f", "a", "u", "l", "t">>
FileF == <<"f">>
FileF0 == <<"f", "0">>
IdA == <<"a">>
IdB == <<"b">>
IdC == <<"c">>

\* figma.ts:225  `${fileKey}:${nodeIds}:${depth || "default"}`
MakeKey(file, sel, tag) == file \o Colon \o sel \o Colon \o tag

KeyFAD == MakeKey(FileF, IdA, DefaultTag)
KeyFA1 == MakeKey(FileF, IdA, <<"1">>)
KeyF0AD == MakeKey(FileF0, IdA, DefaultTag)

\* the cache keys of the model: two of file "f" that differ in their depth
\* tag only, and one of file "f0", whose name begins with "f"
Keys == {KeyFAD, KeyFA1, KeyF0AD}
Files == {FileF, FileF0}
NodeIds == {IdA, IdB, IdC}

(***************************************************************************)
(* Snapshots (SimplifiedDesign) and cache items                            *)
(***************************************************************************)
\* A node without a children field was cut off or is a leaf; a node with
\* children = <<>> was fetched and has none.
NodeC == [id |-> IdC]
NodeB == [id |-> IdB, children |-> <<NodeC>>]
NodeBCut == [id |-> IdB]
NodeA == [id |-> IdA, children |-> <<NodeB>>]
NodeACut == [id |-> IdA, children |-> <<NodeBCut>>]

Design(name, modified, roots) ==
  [name |-> name, lastModified |-> modified, thumbnailUrl |-> name,
   nodes |-> roots, components |-> {name}, componentSets |-> {},
   globalVars |-> {name}]

DesignFull == Design("full", "T1", <<NodeA>>)
DesignCut == Design("cut", "T1", <<NodeACut>>)
DesignB == Design("b", "T2", <<NodeB>>)

Designs == {DesignFull, DesignCut, DesignB}

\* part_002:6-9  interface CacheItem
CacheItem(d, m) == [data |-> d, lastTouchedAt |-> m]

\* what callers put: "" is the empty freshness marker
CacheItems == {CacheItem(DesignFull, "T1"), CacheItem(DesignCut, "")}

(***************************************************************************)
(* JS Map<K, node>: the keys in insertion order                            *)
(***************************************************************************)
MapHas(m, k) == \E i \in 1..Len(m) : m[i] = k
MapDelete(m, k) == SelectSeq(m, LAMBDA x : x # k)
MapSet(m, k) == IF MapHas(m, k) THEN m ELSE Append(m, k)
MapKeys(m) == {m[i] : i \in 1..Len(m)}

NodeSet(f, k, v) == [x \in (DOMAIN f) \cup {k} |-> IF x = k THEN v ELSE f[x]]
NodeDrop(f, k) == [x \in (DOMAIN f) \ {k} |-> f[x]]
NoNodes == [x \in {} |-> Null]

(***************************************************************************)
(* LRUCache: capacity, cache (the Map), node (the list nodes, by key),     *)
(* head, tail.                                                             *)
(***************************************************************************)
NewLRU(cap) ==
  [capacity |-> cap, cache |-> <<>>, node |-> NoNodes, head |-> Null, tail |-> Null]

removeNode(st, k) ==
  LET n == st.node[k]
      s1 == IF n.prev # Null
              THEN [st EXCEPT !.node[n.prev].next = n.next]
              ELSE [st EXCEPT !.head = n.next]
  IN IF n.next # Null
       THEN [s1 EXCEPT !.node[n.next].prev = n.prev]
       ELSE [s1 EXCEPT !.tail = n.prev]

\* addToFront that leaves the prev link of the old head as it was
addToFront_NoBackLink(st, k) ==
  LET s1 == [st EXCEPT !.node[k].next = st.head, !.node[k].prev = Null]
      s3 == [s1 EXCEPT !.head = k]
  IN IF st.tail = Null THEN [s3 EXCEPT !.tail = k] ELSE s3

addToFront(st, k) ==
  LET s1 == [st EXCEPT !.node[k].next = st.head, !.node[k].prev = Null]
      s2 == IF st.head # Null THEN [s1 EXCEPT !.node[st.head].prev = k] ELSE s1
      s3 == [s2 EXCEPT !.head = k]
  IN IF st.tail = Null THEN [s3 EXCEPT !.tail = k] ELSE s3

moveToFront(st, k) ==
  IF k = st.head THEN st ELSE addToFront(removeNode(st, k), k)

\* lruGet with the promotion forgotten
lruGet_NoPromote(st, k) ==
  IF ~MapHas(st.cache, k)
    THEN [st |-> st, ret |-> None]
    ELSE [st |-> st, ret |-> Some(st.node[k].value)]

\* lruGet that promotes the entry but hands back the value at the head
lruGet_HeadValue(st, k) ==
  IF ~MapHas(st.cache, k)
    THEN [st |-> st, ret |-> None]
    ELSE [st |-> moveToFront(st, k), ret |-> Some(st.node[st.head].value)]

\* Each operation yields the store afterwards and the value returned.
lruGet(st, k) ==
  IF ~MapHas(st.cache, k)
    THEN [st |-> st, ret |-> None]
    ELSE [st |-> moveToFront(st, k), ret |-> Some(st.node[k].value)]

\* lruEvict that removes the head, the most recently used entry
lruEvict_Head(st) ==
  IF Len(st.cache) >= st.capacity /\ st.head # Null
    THEN LET t == st.head
             s1 == [st EXCEPT !.cache = MapDelete(st.cache, t)]
             s2 == removeNode(s1, t)
         IN [s2 EXCEPT !.node = NodeDrop(s2.node, t)]
    ELSE st

lruEvict(st) ==
  IF Len(st.cache) >= st.capacity /\ st.tail # Null
    THEN LET t == st.tail
             s1 == [st EXCEPT !.cache = MapDelete(st.cache, t)]
             s2 == removeNode(s1, t)
         IN [s2 EXCEPT !.node = NodeDrop(s2.node, t)]
    ELSE st

\* lruPut that promotes an existing entry without storing the new value
lruPut_KeepsOldValue(st, k, v) ==
  IF MapHas(st.cache, k)
    THEN [st |-> moveToFront(st, k), ret |-> None]
    ELSE LET s1 == lruEvict(st)
             s2 == [s1 EXCEPT !.cache = MapSet(s1.cache, k),
                              !.node = NodeSet(s1.node, k,
                                         [value |-> v, prev |-> Null, next |-> Null])]
         IN [st |-> addToFront(s2, k), ret |-> None]

lruPut(st, k, v) ==
  IF MapHas(st.cache, k)
    THEN [st |-> moveToFront([st EXCEPT !.node[k].value = v], k), ret |-> None]
    ELSE LET s1 == lruEvict(st)
             s2 == [s1 EXCEPT !.cache = MapSet(s1.cache, k),
                              !.node = NodeSet(s1.node, k,
                                         [value |-> v, prev |-> Null, next |-> Null])]
         IN [st |-> addToFront(s2, k), ret |-> None]

\* delete that empties the store when the key is not stored
lruDelete_MissingClears(st, k) ==
  IF ~MapHas(st.cache, k)
    THEN [st |-> [st EXCEPT !.cache = <<>>, !.node = NoNodes, !.head = Null, !.tail = Null],
          ret |-> FALSE]
    ELSE LET s1 == removeNode(st, k)
         IN [st |-> [s1 EXCEPT !.cache = MapDelete(s1.cache, k),
                               !.node = NodeDrop(s1.node, k)],
             ret |-> TRUE]

lruDelete(st, k) ==
  IF ~MapHas(st.cache, k)
    THEN [st |-> st, ret |-> FALSE]
    ELSE LET s1 == removeNode(st, k)
         IN [st |-> [s1 EXCEPT !.cache = MapDelete(s1.cache, k),
                               !.node = NodeDrop(s1.node, k)],
             ret |-> TRUE]

lruClear(st) ==
  [st |-> [st EXCEPT !.cache = <<>>, !.node = NoNodes, !.head = Null, !.tail = Null],
   ret |-> None]

lruSize(st) == Len(st.cache)

\* has that touches the entry as get does
lruHas_Promotes(st, k) ==
  [st |-> IF MapHas(st.cache, k) THEN moveToFront(st, k) ELSE st,
   ret |-> MapHas(st.cache, k)]

lruHas(st, k) == [st |-> st, ret |-> MapHas(st.cache, k)]

\* forEach visits the Map in insertion order: the keys, in visiting order
lruForEach(st) == st.cache

(***************************************************************************)
(* String functions of the cache keys                                      *)
(***************************************************************************)
startsWith(s, prefix) ==
  /\ Len(s) >= Len(prefix)
  /\ SubSeq(s, 1, Len(prefix)) = prefix

\* cacheKey.split(':') and its last part: what follows the last colon
RECURSIVE lastPart(_)
lastPart(s) ==
  IF \A i \in 1..Len(s) : s[i] # ":"
    THEN s
    ELSE lastPart(Tail(s))

Digits == {"0", "1", "2", "3", "4", "5", "6", "7", "8", "9"}
DigitValue(c) ==
  CASE c = "0" -> 0 [] c = "1" -> 1 [] c = "2" -> 2 [] c = "3" -> 3 [] c = "4" -> 4
    [] c = "5" -> 5 [] c = "6" -> 6 [] c = "7" -> 7 [] c = "8" -> 8 [] c = "9" -> 9

RECURSIVE digitsValue(_, _)
digitsValue(s, acc) ==
  IF s = <<>> \/ Head(s) \notin Digits
    THEN acc
    ELSE digitsValue(Tail(s), 10 * acc + DigitValue(Head(s)))

\* parseInt(s, 10) on the strings of cache keys (no sign, no leading blanks):
\* the value of the leading digits, NaN (None) when there is none
parseInt(s) ==
  IF s = <<>> \/ Head(s) \notin Digits THEN None ELSE Some(digitsValue(s, 0))

\* getCacheKeyDepthLimit that reads every key as one without a depth limit
getCacheKeyDepthLimit_NoTag(cacheKey) == None

getCacheKeyDepthLimit(cacheKey) == parseInt(lastPart(cacheKey))

(***************************************************************************)
(* Node-tree utilities                                                     *)
(***************************************************************************)
hasChildren(node) == "children" \in DOMAIN node

SetMax(S) == CHOOSE x \in S : \A y \in S : y <= x

RECURSIVE getNodeDepth(_)
getNodeDepth(node) ==
  IF ~hasChildren(node) \/ Len(node.children) = 0
    THEN 0
    ELSE 1 + SetMax({getNodeDepth(node.children[i]) : i \in 1..Len(node.children)})

RECURSIVE getNodeDepthFromRoot(_, _, _)
getNodeDepthFromRoot(nodes, targetId, currentDepth) ==
  IF nodes = <<>>
    THEN -1
    ELSE LET node == Head(nodes)
             found == IF hasChildren(node)
                        THEN getNodeDepthFromRoot(node.children, targetId, currentDepth + 1)
                        ELSE -1
         IN IF node.id = targetId THEN currentDepth
            ELSE IF found # -1 THEN found
            ELSE getNodeDepthFromRoot(Tail(nodes), targetId, currentDepth)

withoutChildren(node) == [f \in (DOMAIN node) \ {"children"} |-> node[f]]

\* limitNodeDepth that cuts one level too late (maxDepth < 0)
RECURSIVE limitNodeDepth_CutsLate(_, _)
limitNodeDepth_CutsLate(node, maxDepth) ==
  IF maxDepth < 0 THEN withoutChildren(node)
  ELSE IF ~hasChildren(node) \/ Len(node.children) = 0 THEN node
  ELSE [node EXCEPT !.children =
          [i \in 1..Len(node.children) |->
             limitNodeDepth_CutsLate(node.children[i], maxDepth - 1)]]

RECURSIVE limitNodeDepth(_, _)
limitNodeDepth(node, maxDepth) ==
  IF maxDepth <= 0 THEN withoutChildren(node)
  ELSE IF ~hasChildren(node) \/ Len(node.children) = 0 THEN node
  ELSE [node EXCEPT !.children =
          [i \in 1..Len(node.children) |-> limitNodeDepth(node.children[i], maxDepth - 1)]]

RECURSIVE findNodeInTree(_, _)
findNodeInTree(nodes, targetId) ==
  IF nodes = <<>>
    THEN None
    ELSE LET node == Head(nodes)
             found == IF hasChildren(node)
                        THEN findNodeInTree(node.children, targetId)
                        ELSE None
         IN IF node.id = targetId THEN Some(node)
            ELSE IF found # None THEN found
            ELSE findNodeInTree(Tail(nodes), targetId)

(***************************************************************************)
(* ParseDataCache: lookups.  requiredDepth is None (null / undefined) or   *)
(* Some(d).                                                                *)
(***************************************************************************)
\* the depth test with > in place of >=
checkNodeDepthSatisfiesRequirement_Strict(cacheData, targetNodeId, requiredDepth) ==
  IF requiredDepth = None THEN TRUE
  ELSE LET targetNode == findNodeInTree(cacheData.nodes, targetNodeId)
       IN IF targetNode = None THEN FALSE
          ELSE LET overallCacheDepth ==
                     SetMax({getNodeDepth(cacheData.nodes[i]) : i \in 1..Len(cacheData.nodes)})
                   targetNodeDepth == getNodeDepth(targetNode[1])
               IN \/ overallCacheDepth > requiredDepth[1]
                  \/ targetNodeDepth > requiredDepth[1]

checkNodeDepthSatisfiesRequirement(cacheData, targetNodeId, requiredDepth) ==
  IF requiredDepth = None THEN TRUE
  ELSE LET targetNode == findNodeInTree(cacheData.nodes, targetNodeId)
       IN IF targetNode = None THEN FALSE
          ELSE LET overallCacheDepth ==
                     SetMax({getNodeDepth(cacheData.nodes[i]) : i \in 1..Len(cacheData.nodes)})
                   targetNodeDepth == getNodeDepth(targetNode[1])
               IN \/ overallCacheDepth >= requiredDepth[1]
                  \/ targetNodeDepth >= requiredDepth[1]

\* the visitor with the ceiling test totalDepthNeeded > cacheDepthLimit
entryAnswer_TagInclusive(cacheItem, cacheKey, nodeId, requiredDepth) ==
  LET cacheDepthLimit == getCacheKeyDepthLimit(cacheKey)
      targetNode == findNodeInTree(cacheItem.data.nodes, nodeId)
      truncated ==
        /\ requiredDepth = None
        /\ cacheDepthLimit # None
        /\ \/ targetNode = None
           \/ getNodeDepthFromRoot(cacheItem.data.nodes, nodeId, 0)
                + getNodeDepth(targetNode[1]) > cacheDepthLimit[1]
  IN IF truncated THEN None
     ELSE IF ~checkNodeDepthSatisfiesRequirement(cacheItem.data, nodeId, requiredDepth)
       THEN None
     ELSE IF targetNode = None THEN None
     ELSE LET node == targetNode[1]
              finalNode == IF requiredDepth # None /\ requiredDepth[1] >= 0
                             THEN limitNodeDepth(node, requiredDepth[1])
                             ELSE node
          IN Some([node |-> finalNode, cacheItem |-> cacheItem])

\* the visitor without the ceiling test for queries with no requiredDepth
entryAnswer_IgnoresTag(cacheItem, cacheKey, nodeId, requiredDepth) ==
  LET targetNode == findNodeInTree(cacheItem.data.nodes, nodeId)
  IN IF ~checkNodeDepthSatisfiesRequirement(cacheItem.data, nodeId, requiredDepth)
       THEN None
     ELSE IF targetNode = None THEN None
     ELSE LET node == targetNode[1]
              finalNode == IF requiredDepth # None /\ requiredDepth[1] >= 0
                             THEN limitNodeDepth(node, requiredDepth[1])
                             ELSE node
          IN Some([node |-> finalNode, cacheItem |-> cacheItem])

\* the visitor that hands back the stored node without limiting it
entryAnswer_NoLimit(cacheItem, cacheKey, nodeId, requiredDepth) ==
  LET cacheDepthLimit == getCacheKeyDepthLimit(cacheKey)
      targetNode == findNodeInTree(cacheItem.data.nodes, nodeId)
      truncated ==
        /\ requiredDepth = None
        /\ cacheDepthLimit # None
        /\ \/ targetNode = None
           \/ getNodeDepthFromRoot(cacheItem.data.nodes, nodeId, 0)
                + getNodeDepth(targetNode[1]) >= cacheDepthLimit[1]
  IN IF truncated THEN None
     ELSE IF ~checkNodeDepthSatisfiesRequirement(cacheItem.data, nodeId, requiredDepth)
       THEN None
     ELSE IF targetNode = None THEN None
     ELSE Some([node |-> targetNode[1], cacheItem |-> cacheItem])

\* the body of the forEach visitor of findNodeInCache for one entry whose
\* key has the file's prefix: None when the entry is passed over
entryAnswer(cacheItem, cacheKey, nodeId, requiredDepth) ==
  LET cacheDepthLimit == getCacheKeyDepthLimit(cacheKey)
      targetNode == findNodeInTree(cacheItem.data.nodes, nodeId)
      truncated ==
        /\ requiredDepth = None
        /\ cacheDepthLimit # None
        /\ \/ targetNode = None
           \/ getNodeDepthFromRoot(cacheItem.data.nodes, nodeId, 0)
                + getNodeDepth(targetNode[1]) >= cacheDepthLimit[1]
  IN IF truncated THEN None
     ELSE IF ~checkNodeDepthSatisfiesRequirement(cacheItem.data, nodeId, requiredDepth)
       THEN None
     ELSE IF targetNode = None THEN None
     ELSE LET node == targetNode[1]
              finalNode == IF requiredDepth # None /\ requiredDepth[1] >= 0
                             THEN limitNodeDepth(node, requiredDepth[1])
                             ELSE node
          IN Some([node |-> finalNode, cacheItem |-> cacheItem])

\* the scan that tests the key against the file key without the colon
RECURSIVE scanForNode_BarePrefix(_, _, _, _, _)
scanForNode_BarePrefix(st, order, fileKey, nodeId, requiredDepth) ==
  IF order = <<>>
    THEN None
    ELSE LET cacheKey == Head(order)
             answer == IF startsWith(cacheKey, fileKey)
                         THEN entryAnswer(st.node[cacheKey].value, cacheKey, nodeId, requiredDepth)
                         ELSE None
         IN IF answer # None THEN answer
            ELSE scanForNode_BarePrefix(st, Tail(order), fileKey, nodeId, requiredDepth)

RECURSIVE scanForNode(_, _, _, _, _)
scanForNode(st, order, fileKey, nodeId, requiredDepth) ==
  IF order = <<>>
    THEN None
    ELSE LET cacheKey == Head(order)
             answer == IF startsWith(cacheKey, fileKey \o Colon)
                         THEN entryAnswer(st.node[cacheKey].value, cacheKey, nodeId, requiredDepth)
                         ELSE None
         IN IF answer # None THEN answer
            ELSE scanForNode(st, Tail(order), fileKey, nodeId, requiredDepth)

findNodeInCache(st, fileKey, nodeId, requiredDepth) ==
  scanForNode(st, lruForEach(st), fileKey, nodeId, requiredDepth)

\* createDesignFromNodes that keeps the roots of the original design
createDesignFromNodes_KeepsRoots(originalDesign, nodes) ==
  [name |-> originalDesign.name,
   lastModified |-> originalDesign.lastModified,
   thumbnailUrl |-> originalDesign.thumbnailUrl,
   nodes |-> originalDesign.nodes,
   components |-> originalDesign.components,
   componentSets |-> originalDesign.componentSets,
   globalVars |-> originalDesign.globalVars]

createDesignFromNodes(originalDesign, nodes) ==
  [name |-> originalDesign.name,
   lastModified |-> originalDesign.lastModified,
   thumbnailUrl |-> originalDesign.thumbnailUrl,
   nodes |-> nodes,
   components |-> originalDesign.components,
   componentSets |-> originalDesign.componentSets,
   globalVars |-> originalDesign.globalVars]

mergeNodesAsDesign(sourceDesign, nodes) == createDesignFromNodes(sourceDesign, nodes)

\* the forEach of findMultipleNodes that records the source design: every
\* matching entry overwrites it, so the last match in visiting order stays
RECURSIVE scanForSource(_, _, _, _, _)
scanForSource(st, order, fileKey, nodeId, sourceDesign) ==
  IF order = <<>>
    THEN sourceDesign
    ELSE LET cacheKey == Head(order)
             data == st.node[cacheKey].value.data
             next == IF /\ startsWith(cacheKey, fileKey \o Colon)
                        /\ findNodeInTree(data.nodes, nodeId) # None
                       THEN Some(data)
                       ELSE sourceDesign
         IN scanForSource(st, Tail(order), fileKey, nodeId, next)

(***************************************************************************)
(* Freshness validation.  The metadata fetch either rejects or resolves    *)
(* with a metadata object whose last_touched_at is missing (None) or a     *)
(* string.                                                                 *)
(***************************************************************************)
Rejected == [ok |-> FALSE, last_touched_at |-> None]
Meta(marker) == [ok |-> TRUE, last_touched_at |-> marker]
FetchOutcomes == {Rejected, Meta(None), Meta(Some("")), Meta(Some("T1")), Meta(Some("T2"))}
\* the validation of an entry with an empty marker makes no fetch
NoFetch == [ok |-> FALSE, last_touched_at |-> Some("none")]

\* validateCacheItem without the early return for an empty marker
validateFetches_Always(cacheItem) == TRUE

\* part_002:251  getFileMeta is called only for a non-empty stored marker
validateFetches(cacheItem) == cacheItem.lastTouchedAt # ""

\* validateCacheItem whose catch block gives the entry up
validateCacheItem_RejectIsStale(cacheItem, outcome) ==
  IF cacheItem.lastTouchedAt = "" THEN "fresh"
  ELSE IF ~outcome.ok THEN "stale"
  ELSE LET currentLastTouchedAt == outcome.last_touched_at
       IN IF /\ currentLastTouchedAt # None
             /\ currentLastTouchedAt[1] # ""
             /\ currentLastTouchedAt[1] # cacheItem.lastTouchedAt
            THEN "stale"
            ELSE "fresh"

\* validateCacheItem that compares the markers without testing that the
\* fetched one is present and non-empty
validateCacheItem_MissingIsStale(cacheItem, outcome) ==
  IF cacheItem.lastTouchedAt = "" THEN "fresh"
  ELSE IF ~outcome.ok THEN "fresh"
  ELSE IF outcome.last_touched_at # Some(cacheItem.lastTouchedAt) THEN "stale"
  ELSE "fresh"

\* "fresh", "stale", or "throw" when an error leaves validateCacheItem
validateCacheItem(cacheItem, outcome) ==
  IF cacheItem.lastTouchedAt = "" THEN "fresh"
  ELSE IF ~outcome.ok THEN "fresh"
  ELSE LET currentLastTouchedAt == outcome.last_touched_at
       IN IF /\ currentLastTouchedAt # None
             /\ currentLastTouchedAt[1] # ""
             /\ currentLastTouchedAt[1] # cacheItem.lastTouchedAt
            THEN "stale"
            ELSE "fresh"

RECURSIVE deleteAll(_, _)
deleteAll(st, keys) ==
  IF keys = <<>> THEN st ELSE deleteAll(lruDelete(st, Head(keys)).st, Tail(keys))

\* clearFileCache that tests the keys against the file key without the colon
clearFileCache_BarePrefix(st, fileKey) ==
  LET keysToDelete == SelectSeq(lruForEach(st), LAMBDA k : startsWith(k, fileKey))
  IN deleteAll(st, keysToDelete)

clearFileCache(st, fileKey) ==
  LET keysToDelete == SelectSeq(lruForEach(st), LAMBDA k : startsWith(k, fileKey \o Colon))
  IN deleteAll(st, keysToDelete)

(***************************************************************************)
(* ParseDataCache: the synchronous part of a lookup up to its await, and   *)
(* the part that runs when the validation has settled.                     *)
(***************************************************************************)
\* get, part_002:283-290
getCall(st, cacheKey, validate) ==
  LET r == lruGet(st, cacheKey)
      awaits == r.ret # None /\ validate
  IN [st |-> r.st,
      cacheItem |-> r.ret,
      awaits |-> awaits,
      fetched |-> awaits /\ validateFetches(r.ret[1]),
      ret |-> IF r.ret = None THEN None ELSE Some(r.ret[1].data)]

\* get that deletes the entry whatever the validation says
getSettle_AlwaysDeletes(st, cacheKey, cacheItem, outcome) ==
  LET verdict == validateCacheItem(cacheItem, outcome)
  IN IF verdict = "stale"
       THEN [st |-> lruDelete(st, cacheKey).st, ret |-> None, threw |-> FALSE]
     ELSE [st |-> lruDelete(st, cacheKey).st, ret |-> Some(cacheItem.data), threw |-> FALSE]

\* get that reports a stale entry as not found but leaves it stored
getSettle_KeepsStale(st, cacheKey, cacheItem, outcome) ==
  LET verdict == validateCacheItem(cacheItem, outcome)
  IN IF verdict = "stale"
       THEN [st |-> st, ret |-> None, threw |-> FALSE]
     ELSE [st |-> st, ret |-> Some(cacheItem.data), threw |-> FALSE]

\* get that gives up every entry of the key's file and selector when the
\* entry is stale
getSettle_DropsAllTags(st, cacheKey, cacheItem, outcome) ==
  LET verdict == validateCacheItem(cacheItem, outcome)
      untagged == SubSeq(cacheKey, 1, Len(cacheKey) - Len(lastPart(cacheKey)))
      family == SelectSeq(lruForEach(st), LAMBDA k : startsWith(k, untagged))
  IN IF verdict = "stale"
       THEN [st |-> deleteAll(st, family), ret |-> None, threw |-> FALSE]
     ELSE [st |-> st, ret |-> Some(cacheItem.data), threw |-> FALSE]

\* get, part_002:290-299
getSettle(st, cacheKey, cacheItem, outcome) ==
  LET verdict == validateCacheItem(cacheItem, outcome)
  IN IF verdict = "stale"
       THEN [st |-> lruDelete(st, cacheKey).st, ret |-> None, threw |-> FALSE]
     ELSE IF verdict = "throw"
       THEN [st |-> st, ret |-> None, threw |-> TRUE]
     ELSE [st |-> st, ret |-> Some(cacheItem.data), threw |-> FALSE]

\* findNodeData, part_002:311-318
findCall(st, fileKey, nodeId, validate, requiredDepth) ==
  LET result == findNodeInCache(st, fileKey, nodeId, requiredDepth)
      awaits == result # None /\ validate
  IN [result |-> result,
      awaits |-> awaits,
      fetched |-> awaits /\ validateFetches(result[1].cacheItem),
      ret |-> IF result = None THEN None ELSE Some(result[1].node)]

\* findNodeData that clears the whole cache when the entry is stale
findSettle_ClearsAll(st, fileKey, result, outcome) ==
  LET verdict == validateCacheItem(result.cacheItem, outcome)
  IN IF verdict = "stale"
       THEN [st |-> lruClear(st).st, ret |-> None, threw |-> FALSE]
     ELSE IF verdict = "throw"
       THEN [st |-> st, ret |-> None, threw |-> TRUE]
     ELSE [st |-> st, ret |-> Some(result.node), threw |-> FALSE]

\* findNodeData that reads the backing entry of a fresh hit through
\* LRUCache.get, which makes it the most recently used entry
findSettle_PromotesHit(st, fileKey, result, outcome) ==
  LET verdict == validateCacheItem(result.cacheItem, outcome)
      backing == SelectSeq(lruForEach(st), LAMBDA k : st.node[k].value = result.cacheItem)
  IN IF verdict = "stale"
       THEN [st |-> clearFileCache(st, fileKey), ret |-> None, threw |-> FALSE]
     ELSE IF verdict = "throw"
       THEN [st |-> st, ret |-> None, threw |-> TRUE]
     ELSE [st |-> IF backing = <<>> THEN st ELSE lruGet(st, Head(backing)).st,
           ret |-> Some(result.node), threw |-> FALSE]

\* findNodeData, part_002:318-326
findSettle(st, fileKey, result, outcome) ==
  LET verdict == validateCacheItem(result.cacheItem, outcome)
  IN IF verdict = "stale"
       THEN [st |-> clearFileCache(st, fileKey), ret |-> None, threw |-> FALSE]
     ELSE IF verdict = "throw"
       THEN [st |-> st, ret |-> None, threw |-> TRUE]
     ELSE [st |-> st, ret |-> Some(result.node), threw |-> FALSE]

(***************************************************************************)
(* State                                                                   *)
(***************************************************************************)
VARIABLES
  cache,    \* ParseDataCache.cache, the LRUCache object
  procs,    \* the lookups in flight: where each is suspended, and its locals
            \* (with the remote file, where a specification has one that changes)
  touched,  \* history: the stored keys, least recently touched (put, get hit) first
  putData,  \* history: for each stored key, the snapshot of the latest put on it
  last      \* history: the operation step taken last and what it returned

vars == <<cache, procs, touched, putData, last>>

Procs == {1}
Idle == [pc |-> "idle"]

\* inputs of the operations
DepthArgs == {None, Some(1)}
IdLists == {<<>>, <<IdC, IdA>>}
MultiFiles == {FileF}
MergeNodes == {<<NodeC>>, <<NodeBCut, NodeA>>}
MergeSources == {DesignFull, DesignB}

Touch(seq, k) == Append(SelectSeq(seq, LAMBDA x : x # k), k)
Keep(seq, st) == SelectSeq(seq, LAMBDA x : MapHas(st.cache, x))
KeepData(f, st) == [k \in {x \in DOMAIN f : MapHas(st.cache, x)} |-> f[k]]
Removed(st, st2) == MapKeys(st.cache) \ MapKeys(st2.cache)

Init ==
  /\ \E cap \in 0..MaxCap : cache = NewLRU(cap)
  /\ procs = [p \in Procs |-> Idle]
  /\ touched = <<>>
  /\ putData = NoNodes
  /\ last = [op |-> "new"]

(***************************************************************************)
(* ParseDataCache: the operations                                          *)
(***************************************************************************)
\* put, part_002:372-379
Put(k, item) ==
  LET r == lruPut(cache, k, CacheItem(item.data, item.lastTouchedAt))
  IN /\ cache' = r.st
     /\ touched' = Keep(Touch(touched, k), r.st)
     /\ putData' = KeepData(NodeSet(putData, k, item.data), r.st)
     /\ last' = [op |-> "put", key |-> k, item |-> item,
                 present |-> MapHas(cache.cache, k), evicted |-> Removed(cache, r.st)]
     /\ UNCHANGED procs

\* No lookup is suspended: has and mergeNodesAsDesign only read, and every
\* store a call meets while a lookup is suspended is also met between
\* lookups, so the model takes these two calls between lookups.
Quiet == \A p \in Procs : procs[p] = Idle

\* has, part_002:413-415
Has(k) ==
  LET r == lruHas(cache, k)
  IN /\ Quiet
     /\ cache' = r.st
     /\ touched' = Keep(touched, r.st)
     /\ putData' = KeepData(putData, r.st)
     /\ last' = [op |-> "has", key |-> k, ret |-> r.ret]
     /\ UNCHANGED procs

\* clearFileCache, part_002:391-400
ClearFileCache(f) ==
  /\ cache' = clearFileCache(cache, f)
  /\ touched' = Keep(touched, cache')
  /\ putData' = KeepData(putData, cache')
  /\ last' = [op |-> "clearFileCache", fileKey |-> f, removed |-> Removed(cache, cache')]
  /\ UNCHANGED procs

\* clearAllCache, part_002:405-408
ClearAllCache ==
  /\ cache' = lruClear(cache).st
  /\ touched' = Keep(touched, cache')
  /\ putData' = KeepData(putData, cache')
  /\ last' = [op |-> "clearAllCache"]
  /\ UNCHANGED procs

\* mergeNodesAsDesign, part_002:384-386
MergeNodesAsDesign(source, nodes) ==
  /\ Quiet
  /\ last' = [op |-> "mergeNodesAsDesign", source |-> source, nodes |-> nodes,
              ret |-> mergeNodesAsDesign(source, nodes)]
  /\ UNCHANGED <<cache, procs, touched, putData>>

\* get up to its return or its await of validateCacheItem
Get(p, k, validate) ==
  LET c == getCall(cache, k, validate)
  IN /\ procs[p] = Idle
     /\ cache' = c.st
     /\ touched' = Keep(IF c.cacheItem # None THEN Touch(touched, k) ELSE touched, c.st)
     /\ putData' = KeepData(putData, c.st)
     /\ procs' = IF c.awaits
                   THEN [procs EXCEPT ![p] = [pc |-> "get", cacheKey |-> k,
                                              cacheItem |-> c.cacheItem[1],
                                              fetched |-> c.fetched]]
                   ELSE procs
     /\ last' = [op |-> "get", proc |-> p, key |-> k, validate |-> validate,
                 hit |-> c.cacheItem # None, done |-> ~c.awaits,
                 fetched |-> c.fetched, settled |-> FALSE, threw |-> FALSE,
                 ret |-> IF c.awaits THEN None ELSE c.ret]

\* get that stays suspended when the metadata fetch rejects
GetSettle_PendsOnReject(p, outcome) ==
  LET pr == procs[p]
      r == getSettle(cache, pr.cacheKey, pr.cacheItem, outcome)
  IN /\ pr.pc = "get"
     /\ outcome \in (IF pr.fetched THEN FetchOutcomes ELSE {NoFetch})
     /\ cache' = r.st
     /\ touched' = Keep(touched, r.st)
     /\ putData' = KeepData(putData, r.st)
     /\ procs' = IF outcome = Rejected THEN procs ELSE [procs EXCEPT ![p] = Idle]
     /\ last' = [op |-> "get", proc |-> p, key |-> pr.cacheKey, validate |-> TRUE,
                 hit |-> TRUE, done |-> outcome # Rejected, fetched |-> pr.fetched,
                 settled |-> TRUE, threw |-> r.threw, ret |-> r.ret,
                 outcome |-> outcome, removed |-> Removed(cache, r.st)]

\* get from the settled validation to its return
GetSettle(p, outcome) ==
  LET pr == procs[p]
      r == getSettle(cache, pr.cacheKey, pr.cacheItem, outcome)
  IN /\ pr.pc = "get"
     /\ outcome \in (IF pr.fetched THEN FetchOutcomes ELSE {NoFetch})
     /\ cache' = r.st
     /\ touched' = Keep(touched, r.st)
     /\ putData' = KeepData(putData, r.st)
     /\ procs' = [procs EXCEPT ![p] = Idle]
     /\ last' = [op |-> "get", proc |-> p, key |-> pr.cacheKey, validate |-> TRUE,
                 hit |-> TRUE, done |-> TRUE, fetched |-> pr.fetched,
                 settled |-> TRUE, threw |-> r.threw, ret |-> r.ret,
                 outcome |-> outcome, removed |-> Removed(cache, r.st)]

\* findNodeData up to its return or its await of validateCacheItem
FindNodeData(p, f, id, validate, depth) ==
  LET c == findCall(cache, f, id, validate, depth)
  IN /\ procs[p] = Idle
     /\ procs' = IF c.awaits
                   THEN [procs EXCEPT ![p] = [pc |-> "find", fileKey |-> f,
                                              result |-> c.result[1],
                                              fetched |-> c.fetched]]
                   ELSE procs
     /\ last' = [op |-> "findNodeData", proc |-> p, fileKey |-> f,
                 validate |-> validate,
                 hit |-> c.result # None, done |-> ~c.awaits,
                 fetched |-> c.fetched, settled |-> FALSE, threw |-> FALSE,
                 ret |-> IF c.awaits THEN None ELSE c.ret]
     /\ UNCHANGED <<cache, touched, putData>>

\* findNodeData from the settled validation to its return
FindSettle(p, outcome) ==
  LET pr == procs[p]
      r == findSettle(cache, pr.fileKey, pr.result, outcome)
  IN /\ pr.pc = "find"
     /\ outcome \in (IF pr.fetched THEN FetchOutcomes ELSE {NoFetch})
     /\ cache' = r.st
     /\ touched' = Keep(touched, r.st)
     /\ putData' = KeepData(putData, r.st)
     /\ procs' = [procs EXCEPT ![p] = Idle]
     /\ last' = [op |-> "findNodeData", proc |-> p, fileKey |-> pr.fileKey,
                 validate |-> TRUE, hit |-> TRUE, done |-> TRUE,
                 fetched |-> pr.fetched, settled |-> TRUE, threw |-> r.threw,
                 ret |-> r.ret, outcome |-> outcome, removed |-> Removed(cache, r.st)]

\* findMultipleNodes: the call of findNodeData for nodeIds[i], up to the
\* await inside it (pc "multi.validate") or the await of its result
\* (pc "multi.return").  backing is history: while the hit list is empty,
\* the snapshot of the entry findNodeInCache took the node from.
multiCall(st, pr, i) ==
  LET c == findCall(st, pr.fileKey, pr.nodeIds[i], pr.validate, pr.requiredDepth)
  IN [pr EXCEPT !.pc = IF c.awaits THEN "multi.validate" ELSE "multi.return",
                !.i = i,
                !.result = IF c.awaits THEN c.result ELSE None,
                !.fetched = c.fetched,
                !.cachedNode = IF c.awaits THEN None ELSE c.ret,
                !.backing = IF c.result # None /\ pr.cachedNodes = <<>>
                              THEN Some(c.result[1].cacheItem.data)
                              ELSE None]

\* findMultipleNodes that picks the source snapshot before its loop: the
\* snapshot of the first entry of the file
FindMultipleNodes_SourceBeforeLoop(p, f, ids, validate, depth) ==
  LET pr == [pc |-> "multi.call", fileKey |-> f, nodeIds |-> ids, i |-> 0,
             validate |-> validate, requiredDepth |-> depth,
             cachedNodes |-> <<>>, missingNodeIds |-> <<>>, sourceDesign |-> None,
             result |-> None, fetched |-> FALSE, cachedNode |-> None,
             backing |-> None]
      ofFile == SelectSeq(lruForEach(cache), LAMBDA k : startsWith(k, f \o Colon))
      first == IF ofFile = <<>> THEN None ELSE Some(cache.node[Head(ofFile)].value.data)
  IN /\ procs[p] = Idle
     /\ procs' = IF ids = <<>> THEN procs ELSE [procs EXCEPT ![p] = multiCall(cache, pr, 1)]
     /\ last' = IF ids = <<>>
                  THEN [op |-> "findMultipleNodes", proc |-> p, fileKey |-> f,
                        nodeIds |-> ids, done |-> TRUE, threw |-> FALSE,
                        ret |-> [cachedNodes |-> <<>>, missingNodeIds |-> <<>>,
                                 sourceDesign |-> first]]
                  ELSE [op |-> "findMultipleNodes", proc |-> p, fileKey |-> f,
                        nodeIds |-> ids, done |-> FALSE, threw |-> FALSE]
     /\ UNCHANGED <<cache, touched, putData>>

\* findMultipleNodes, part_002:342-347
FindMultipleNodes(p, f, ids, validate, depth) ==
  LET pr == [pc |-> "multi.call", fileKey |-> f, nodeIds |-> ids, i |-> 0,
             validate |-> validate, requiredDepth |-> depth,
             cachedNodes |-> <<>>, missingNodeIds |-> <<>>, sourceDesign |-> None,
             result |-> None, fetched |-> FALSE, cachedNode |-> None,
             backing |-> None]
  IN /\ procs[p] = Idle
     /\ procs' = IF ids = <<>> THEN procs ELSE [procs EXCEPT ![p] = multiCall(cache, pr, 1)]
     /\ last' = IF ids = <<>>
                  THEN [op |-> "findMultipleNodes", proc |-> p, fileKey |-> f,
                        nodeIds |-> ids, done |-> TRUE, threw |-> FALSE,
                        ret |-> [cachedNodes |-> <<>>, missingNodeIds |-> <<>>,
                                 sourceDesign |-> None]]
                  ELSE [op |-> "findMultipleNodes", proc |-> p, fileKey |-> f,
                        nodeIds |-> ids, done |-> FALSE, threw |-> FALSE]
     /\ UNCHANGED <<cache, touched, putData>>

\* the findNodeData inside findMultipleNodes, from the settled validation
MultiSettle(p, outcome) ==
  LET pr == procs[p]
      r == findSettle(cache, pr.fileKey, pr.result[1], outcome)
  IN /\ pr.pc = "multi.validate"
     /\ outcome \in (IF pr.fetched THEN FetchOutcomes ELSE {NoFetch})
     /\ cache' = r.st
     /\ touched' = Keep(touched, r.st)
     /\ putData' = KeepData(putData, r.st)
     /\ procs' = [procs EXCEPT ![p] =
                    IF r.threw THEN Idle
                    ELSE [pr EXCEPT !.pc = "multi.return", !.cachedNode = r.ret,
                                    !.result = None, !.fetched = FALSE,
                                    !.backing = IF r.ret = None THEN None ELSE @]]
     /\ last' = [op |-> "findMultipleNodes.findNodeData", proc |-> p,
                 fileKey |-> pr.fileKey, fetched |-> pr.fetched, threw |-> r.threw,
                 stale |-> validateCacheItem(pr.result[1].cacheItem, outcome) = "stale"]

\* the turn of the loop that forgets to record a miss
MultiReturn_DropsMisses(p) ==
  LET pr == procs[p]
      nodeId == pr.nodeIds[pr.i]
      hit == pr.cachedNode # None
      pr1 == [pr EXCEPT
                !.cachedNodes = IF hit THEN Append(@, pr.cachedNode[1]) ELSE @,
                !.sourceDesign = IF hit /\ @ = None
                                   THEN scanForSource(cache, lruForEach(cache),
                                                      pr.fileKey, nodeId, None)
                                   ELSE @]
      done == pr.i = Len(pr.nodeIds)
  IN /\ pr.pc = "multi.return"
     /\ procs' = [procs EXCEPT ![p] = IF done THEN Idle ELSE multiCall(cache, pr1, pr.i + 1)]
     /\ last' = IF done
                  THEN [op |-> "findMultipleNodes", proc |-> p, fileKey |-> pr.fileKey,
                        done |-> TRUE, threw |-> FALSE,
                        ret |-> [cachedNodes |-> pr1.cachedNodes,
                                 missingNodeIds |-> pr1.missingNodeIds,
                                 sourceDesign |-> pr1.sourceDesign]]
                  ELSE [op |-> "findMultipleNodes", proc |-> p, fileKey |-> pr.fileKey,
                        done |-> FALSE, threw |-> FALSE]
     /\ UNCHANGED <<cache, touched, putData>>

\* findMultipleNodes, part_002:347-366: the rest of one turn of the loop,
\* then the next call of findNodeData or the return
MultiReturn(p) ==
  LET pr == procs[p]
      nodeId == pr.nodeIds[pr.i]
      hit == pr.cachedNode # None
      pr1 == [pr EXCEPT
                !.cachedNodes = IF hit THEN Append(@, pr.cachedNode[1]) ELSE @,
                !.missingNodeIds = IF hit THEN @ ELSE Append(@, nodeId),
                !.sourceDesign = IF hit /\ @ = None
                                   THEN scanForSource(cache, lruForEach(cache),
                                                      pr.fileKey, nodeId, None)
                                   ELSE @]
      done == pr.i = Len(pr.nodeIds)
  IN /\ pr.pc = "multi.return"
     /\ procs' = [procs EXCEPT ![p] = IF done THEN Idle ELSE multiCall(cache, pr1, pr.i + 1)]
     /\ last' = IF done
                  THEN [op |-> "findMultipleNodes", proc |-> p, fileKey |-> pr.fileKey,
                        done |-> TRUE, threw |-> FALSE,
                        ret |-> [cachedNodes |-> pr1.cachedNodes,
                                 missingNodeIds |-> pr1.missingNodeIds,
                                 sourceDesign |-> pr1.sourceDesign]]
                  ELSE [op |-> "findMultipleNodes", proc |-> p, fileKey |-> pr.fileKey,
                        done |-> FALSE, threw |-> FALSE]
     /\ UNCHANGED <<cache, touched, putData>>

Next ==
  \/ \E k \in Keys, item \in CacheItems : Put(k, item)
  \/ \E k \in Keys : Has(k)
  \/ \E f \in Files : ClearFileCache(f)
  \/ ClearAllCache
  \/ \E source \in MergeSources, nodes \in MergeNodes : MergeNodesAsDesign(source, nodes)
  \/ \E p \in Procs, k \in Keys, validate \in BOOLEAN : Get(p, k, validate)
  \/ \E p \in Procs, outcome \in FetchOutcomes \cup {NoFetch} : GetSettle(p, outcome)
  \/ \E p \in Procs, f \in Files, id \in NodeIds, validate \in BOOLEAN, depth \in DepthArgs :
       FindNodeData(p, f, id, validate, depth)
  \/ \E p \in Procs, outcome \in FetchOutcomes \cup {NoFetch} : FindSettle(p, outcome)
  \/ \E p \in Procs, f \in MultiFiles, ids \in IdLists, validate \in BOOLEAN, depth \in DepthArgs :
       FindMultipleNodes(p, f, ids, validate, depth)
  \/ \E p \in Procs, outcome \in FetchOutcomes \cup {NoFetch} : MultiSettle(p, outcome)
  \/ \E p \in Procs : MultiReturn(p)

Spec == Init /\ [][Next]_vars

(***************************************************************************)
(* The eviction store used directly                                        *)
(***************************************************************************)
LruPut(k, v) ==
  LET r == lruPut(cache, k, v)
  IN /\ cache' = r.st
     /\ touched' = Keep(Touch(touched, k), r.st)
     /\ putData' = KeepData(NodeSet(putData, k, v.data), r.st)
     /\ last' = [op |-> "lru.put", key |-> k, value |-> v]
     /\ UNCHANGED procs

LruGet(k) ==
  LET r == lruGet(cache, k)
  IN /\ cache' = r.st
     /\ touched' = IF MapHas(cache.cache, k) THEN Touch(touched, k) ELSE touched
     /\ putData' = KeepData(putData, cache')
     /\ last' = [op |-> "lru.get", key |-> k, ret |-> r.ret]
     /\ UNCHANGED procs

LruDelete(k) ==
  LET r == lruDelete(cache, k)
  IN /\ cache' = r.st
     /\ touched' = Keep(touched, r.st)
     /\ putData' = KeepData(putData, r.st)
     /\ last' = [op |-> "lru.delete", key |-> k, ret |-> r.ret]
     /\ UNCHANGED procs

LruClear ==
  LET r == lruClear(cache)
  IN /\ cache' = r.st
     /\ touched' = Keep(touched, r.st)
     /\ putData' = KeepData(putData, r.st)
     /\ last' = [op |-> "lru.clear"]
     /\ UNCHANGED procs

LruHas(k) ==
  LET r == lruHas(cache, k)
  IN /\ cache' = r.st
     /\ touched' = touched
     /\ putData' = KeepData(putData, cache')
     /\ last' = [op |-> "lru.has", key |-> k, ret |-> r.ret]
     /\ UNCHANGED procs

NextLRU ==
  \/ \E k \in Keys, v \in CacheItems : LruPut(k, v)
  \/ \E k \in Keys : LruGet(k)
  \/ \E k \in Keys : LruDelete(k)
  \/ LruClear
  \/ \E k \in Keys : LruHas(k)

SpecLRU == Init /\ [][NextLRU]_vars

(***************************************************************************)
(* The validator and the node-tree utilities applied to drawn arguments    *)
(***************************************************************************)
\* Largest depth argument handed to limitNodeDepth in the model.
MaxDepthArg == 3

IdD == <<"d">>
IdE == <<"e">>
IdP == <<"p">>

\* a 3-level forest: root a with the inner child b (over c) and the leaf
\* child d, and the childless root e
NodeD == [id |-> IdD]
NodeE == [id |-> IdE]
NodeAWide == [id |-> IdA, children |-> <<NodeB, NodeD>>]
NodeAWideCut == [id |-> IdA, children |-> <<NodeBCut, NodeD>>]
\* fetched and confirmed to have no children
NodeEEmpty == [id |-> IdE, children |-> <<>>]
\* four levels
NodeP == [id |-> IdP, children |-> <<NodeAWide>>]

FnNodes == {NodeA, NodeACut, NodeB, NodeBCut, NodeC, NodeAWide, NodeAWideCut,
            NodeE, NodeEEmpty, NodeP}
FnForests == {<<NodeA>>, <<NodeACut>>, <<NodeAWide, NodeE>>, <<NodeAWideCut, NodeE>>,
              <<NodeP, NodeEEmpty>>, <<>>}
FnIds == {IdA, IdB, IdC, IdD, IdE, IdP}
FnMarkers == {"", "T1", "T2"}

InitFn ==
  /\ cache = NewLRU(0)
  /\ procs = [p \in Procs |-> Idle]
  /\ touched = <<>>
  /\ putData = NoNodes
  /\ last = [op |-> "new"]

\* validateCacheItem, part_002:247-274, with the outcome of its metadata fetch
ValidateCacheItem(cacheItem, outcome) ==
  /\ outcome \in (IF validateFetches(cacheItem) THEN FetchOutcomes ELSE {NoFetch})
  /\ last' = [op |-> "validateCacheItem", cacheItem |-> cacheItem,
              fetched |-> validateFetches(cacheItem), outcome |-> outcome,
              ret |-> validateCacheItem(cacheItem, outcome)]
  /\ UNCHANGED <<cache, procs, touched, putData>>

\* limitNodeDepth, part_002:94-109
LimitNodeDepth(node, maxDepth) ==
  /\ last' = [op |-> "limitNodeDepth", node |-> node, maxDepth |-> maxDepth,
              ret |-> limitNodeDepth(node, maxDepth)]
  /\ UNCHANGED <<cache, procs, touched, putData>>

\* findNodeInTree, part_002:114-127
FindNodeInTree(nodes, targetId) ==
  /\ last' = [op |-> "findNodeInTree", nodes |-> nodes, targetId |-> targetId,
              ret |-> findNodeInTree(nodes, targetId)]
  /\ UNCHANGED <<cache, procs, touched, putData>>

\* getNodeDepthFromRoot, part_002:75-88
GetNodeDepthFromRoot(nodes, targetId) ==
  /\ last' = [op |-> "getNodeDepthFromRoot", nodes |-> nodes, targetId |-> targetId,
              ret |-> getNodeDepthFromRoot(nodes, targetId, 0)]
  /\ UNCHANGED <<cache, procs, touched, putData>>

\* getNodeDepth, part_002:61-68
GetNodeDepth(node) ==
  /\ last' = [op |-> "getNodeDepth", node |-> node, ret |-> getNodeDepth(node)]
  /\ UNCHANGED <<cache, procs, touched, putData>>

NextFn ==
  \/ \E m \in FnMarkers, outcome \in FetchOutcomes \cup {NoFetch} :
       ValidateCacheItem(CacheItem(DesignFull, m), outcome)
  \/ \E node \in FnNodes, maxDepth \in -1..MaxDepthArg : LimitNodeDepth(node, maxDepth)
  \/ \E nodes \in FnForests, targetId \in FnIds : FindNodeInTree(nodes, targetId)
  \/ \E nodes \in FnForests, targetId \in FnIds : GetNodeDepthFromRoot(nodes, targetId)
  \/ \E node \in FnNodes : GetNodeDepth(node)

SpecFn == InitFn /\ [][NextFn]_vars

(***************************************************************************)
(* Single-node lookups over stores of depth-tagged snapshots               *)
(***************************************************************************)
\* Largest finite requiredDepth handed to findNodeData in the model.
MaxFindDepth == 2

KeyFA2 == MakeKey(FileF, IdA, <<"2">>)
FindKeys == {KeyFAD, KeyFA1, KeyFA2, KeyF0AD}

DesignWide == Design("wide", "T1", <<NodeAWide, NodeE>>)
DesignWideCut == Design("widecut", "T1", <<NodeAWideCut, NodeE>>)

FindDesigns == {DesignFull, DesignCut, DesignWide, DesignWideCut}
FindItems == {CacheItem(d, "T1") : d \in FindDesigns}
FindIds == {IdA, IdB, IdC, IdD, IdE}
FindDepths == {None} \cup {Some(d) : d \in 0..MaxFindDepth}

\* new ParseDataCache(2), as the eviction tests build it
InitFind ==
  /\ cache = NewLRU(2)
  /\ procs = [p \in Procs |-> Idle]
  /\ touched = <<>>
  /\ putData = NoNodes
  /\ last = [op |-> "new"]

\* put, part_002:372-379
FindPut(k, item) ==
  LET r == lruPut(cache, k, CacheItem(item.data, item.lastTouchedAt))
  IN /\ cache' = r.st
     /\ touched' = Keep(Touch(touched, k), r.st)
     /\ putData' = KeepData(NodeSet(putData, k, item.data), r.st)
     /\ last' = [op |-> "put"]
     /\ UNCHANGED procs

\* findNodeData without validationParams, part_002:305-327: it returns
\* without suspending
FindPlain(f, id, depth) ==
  LET c == findCall(cache, f, id, FALSE, depth)
  IN /\ last' = [op |-> "findNodeData", fileKey |-> f, nodeId |-> id,
                 requiredDepth |-> depth, ret |-> c.ret]
     /\ UNCHANGED <<cache, procs, touched, putData>>

NextFind ==
  \/ \E k \in FindKeys, item \in FindItems : FindPut(k, item)
  \/ \E f \in Files, id \in FindIds, depth \in FindDepths : FindPlain(f, id, depth)

SpecFind == InitFind /\ [][NextFind]_vars

(***************************************************************************)
(* Object identity of the nodes a lookup hands back.  A node of a returned *)
(* tree is named by its path below the returned node; it is either an      *)
(* object the lookup allocated or the very object of the stored snapshot.  *)
(***************************************************************************)
\* the paths of the nodes of a tree; <<>> is the node itself
RECURSIVE allPaths(_)
allPaths(node) ==
  {<<>>} \cup (IF hasChildren(node)
                 THEN UNION {{<<i>> \o q : q \in allPaths(node.children[i])}
                             : i \in 1..Len(node.children)}
                 ELSE {})

\* limitNodeDepth, part_002:94-109, by allocation site: the paths of the
\* result at which it holds the object of its argument.  Line 97 builds a
\* new object, line 102 returns the argument itself, line 105 builds a new
\* object around the limited children.
RECURSIVE sharedPaths(_, _)
sharedPaths(node, maxDepth) ==
  IF maxDepth <= 0 THEN {}
  ELSE IF ~hasChildren(node) \/ Len(node.children) = 0 THEN {<<>>}
  ELSE UNION {{<<i>> \o q : q \in sharedPaths(node.children[i], maxDepth - 1)}
              : i \in 1..Len(node.children)}

\* findNodeInTree, part_002:114-127: where in the forest the node it returns
\* is, as the indexes from a root down to it
RECURSIVE findPathInTree(_, _, _)
findPathInTree(nodes, i, targetId) ==
  IF i > Len(nodes)
    THEN None
    ELSE LET node == nodes[i]
             found == IF hasChildren(node)
                        THEN findPathInTree(node.children, 1, targetId)
                        ELSE None
         IN IF node.id = targetId THEN Some(<<i>>)
            ELSE IF found # None THEN Some(<<i>> \o found[1])
            ELSE findPathInTree(nodes, i + 1, targetId)

\* findNodeInCache, part_002:152-224: the entry that answers, the place of
\* the node in its snapshot, the node handed back (finalNode), and the paths
\* of finalNode at which it holds objects of the snapshot (line 208: the
\* stored node itself unless line 210 limits it)
RECURSIVE scanForHolder(_, _, _, _, _)
scanForHolder(st, order, fileKey, nodeId, requiredDepth) ==
  IF order = <<>>
    THEN None
    ELSE LET cacheKey == Head(order)
             cacheItem == st.node[cacheKey].value
             answer == IF startsWith(cacheKey, fileKey \o Colon)
                         THEN entryAnswer(cacheItem, cacheKey, nodeId, requiredDepth)
                         ELSE None
             node == findNodeInTree(cacheItem.data.nodes, nodeId)[1]
         IN IF answer # None
              THEN Some([cacheKey |-> cacheKey,
                         path |-> findPathInTree(cacheItem.data.nodes, 1, nodeId)[1],
                         node |-> answer[1].node,
                         shared |-> IF requiredDepth # None /\ requiredDepth[1] >= 0
                                      THEN sharedPaths(node, requiredDepth[1])
                                      ELSE allPaths(node)])
              ELSE scanForHolder(st, Tail(order), fileKey, nodeId, requiredDepth)

\* a caller's write to a property of a node object: node.name = "edited"
edited(node) ==
  [f \in (DOMAIN node) \cup {"name"} |-> IF f = "name" THEN "edited" ELSE node[f]]

\* the forest once the object at the path has been written to
RECURSIVE editAt(_, _)
editAt(nodes, path) ==
  [nodes EXCEPT ![Head(path)] =
     IF Len(path) = 1 THEN edited(@)
     ELSE [@ EXCEPT !.children = editAt(@, Tail(path))]]

OwnKeys == {KeyFA1, KeyF0AD}
OwnItems == {CacheItem(DesignWide, "T1")}

\* a store of one entry
InitOwn ==
  /\ cache = NewLRU(1)
  /\ procs = [p \in Procs |-> Idle]
  /\ touched = <<>>
  /\ putData = NoNodes
  /\ last = [op |-> "new"]

\* put, part_002:372-379.  The objects of a replaced or evicted entry leave
\* the store with it: a caller that holds them no longer reaches the store.
OwnPut(k, item) ==
  LET r == lruPut(cache, k, CacheItem(item.data, item.lastTouchedAt))
      pr == procs[1]
  IN /\ cache' = r.st
     /\ touched' = Keep(Touch(touched, k), r.st)
     /\ putData' = KeepData(NodeSet(putData, k, item.data), r.st)
     /\ procs' = IF pr.pc = "holds" /\ (pr.cacheKey = k \/ ~MapHas(r.st.cache, pr.cacheKey))
                   THEN [procs EXCEPT ![1].shared = {}]
                   ELSE procs
     /\ last' = [op |-> "put"]

\* findNodeData without validationParams, part_002:305-327; the caller keeps
\* the node it was handed
OwnFind(f, id, depth) ==
  LET h == scanForHolder(cache, lruForEach(cache), f, id, depth)
  IN /\ procs[1] = Idle
     /\ procs' = IF h = None THEN procs
                 ELSE [procs EXCEPT ![1] =
                         [pc |-> "holds", cacheKey |-> h[1].cacheKey, path |-> h[1].path,
                          node |-> h[1].node, shared |-> h[1].shared,
                          requiredDepth |-> depth]]
     /\ last' = [op |-> "findNodeData", fileKey |-> f, nodeId |-> id,
                 requiredDepth |-> depth,
                 ret |-> findCall(cache, f, id, FALSE, depth).ret]
     /\ UNCHANGED <<cache, touched, putData>>

\* the caller writes to the node object at path q of the tree it was handed,
\* and drops the tree.  The write shows in the stored snapshot exactly when
\* that object is the snapshot's.
OwnMutate(q) ==
  LET pr == procs[1]
      item == cache.node[pr.cacheKey].value
      data == [item.data EXCEPT !.nodes = editAt(@, pr.path \o q)]
  IN /\ pr.pc = "holds"
     /\ q \in allPaths(pr.node)
     /\ cache' = IF q \in pr.shared
                   THEN [cache EXCEPT !.node[pr.cacheKey].value.data = data]
                   ELSE cache
     /\ procs' = [procs EXCEPT ![1] = Idle]
     /\ last' = [op |-> "write", requiredDepth |-> pr.requiredDepth, path |-> q,
                 node |-> pr.node]
     /\ UNCHANGED <<touched, putData>>

OwnPaths == {<<>>, <<1>>, <<2>>, <<1, 1>>}

NextOwn ==
  \/ \E k \in OwnKeys, item \in OwnItems : OwnPut(k, item)
  \/ \E f \in Files, id \in FindIds, depth \in FindDepths : OwnFind(f, id, depth)
  \/ \E q \in OwnPaths : OwnMutate(q)

SpecOwn == InitOwn /\ [][NextOwn]_vars

(***************************************************************************)
(* Two validated lookups in flight over a store that never evicts          *)
(***************************************************************************)
TwoProcs == {1, 2}
TwoKeys == {KeyFAD, KeyF0AD}
TwoOutcomes == {Rejected, Meta(Some("T1")), Meta(Some("T2")), NoFetch}

\* a store with room for every key put into it
InitTwo ==
  /\ cache = NewLRU(2)
  /\ procs = [p \in TwoProcs |-> Idle]
  /\ touched = <<>>
  /\ putData = NoNodes
  /\ last = [op |-> "new"]

NextTwo ==
  \/ \E k \in TwoKeys, item \in CacheItems : Put(k, item)
  \/ \E p \in TwoProcs, k \in TwoKeys : Get(p, k, TRUE)
  \/ \E p \in TwoProcs, outcome \in TwoOutcomes : GetSettle(p, outcome)
  \/ \E p \in TwoProcs, f \in Files, id \in {IdA, IdC} : FindNodeData(p, f, id, TRUE, None)
  \/ \E p \in TwoProcs, outcome \in TwoOutcomes : FindSettle(p, outcome)

SpecTwo == InitTwo /\ [][NextTwo]_vars

(***************************************************************************)
(* Lookups over snapshots whose node lists hold null / undefined slots.    *)
(* The lookups of this part have no requiredDepth and the keys have the    *)
(* tag "default": the visitor of findNodeInCache then reaches the tree     *)
(* only through findNodeInTree (part_002:164, 168, 199-201 and 35-37).     *)
(***************************************************************************)
\* a null or undefined slot of a node list
NullSlot == [null |-> TRUE]
isNode(slot) == "id" \in DOMAIN slot

\* findNodeInTree, part_002:114-127, over a list with slots: reading
\* node.id (line 116) of a null or undefined slot raises a TypeError
RECURSIVE findNodeInTreeOnSlots(_, _)
findNodeInTreeOnSlots(nodes, targetId) ==
  IF nodes = <<>>
    THEN [threw |-> FALSE, ret |-> None]
    ELSE LET node == Head(nodes)
             found == IF hasChildren(node)
                        THEN findNodeInTreeOnSlots(node.children, targetId)
                        ELSE [threw |-> FALSE, ret |-> None]
         IN IF ~isNode(node) THEN [threw |-> TRUE, ret |-> None]
            ELSE IF node.id = targetId THEN [threw |-> FALSE, ret |-> Some(node)]
            ELSE IF found.threw \/ found.ret # None THEN found
            ELSE findNodeInTreeOnSlots(Tail(nodes), targetId)

\* findNodeInCache, part_002:152-224, for requiredDepth absent over keys
\* with the tag "default": an error raised in the visitor leaves forEach and
\* findNodeInCache
RECURSIVE scanForNodeOnSlots(_, _, _, _)
scanForNodeOnSlots(st, order, fileKey, nodeId) ==
  IF order = <<>>
    THEN [threw |-> FALSE, ret |-> None]
    ELSE LET cacheKey == Head(order)
             answer == IF startsWith(cacheKey, fileKey \o Colon)
                         THEN findNodeInTreeOnSlots(st.node[cacheKey].value.data.nodes, nodeId)
                         ELSE [threw |-> FALSE, ret |-> None]
         IN IF answer.threw \/ answer.ret # None THEN answer
            ELSE scanForNodeOnSlots(st, Tail(order), fileKey, nodeId)

NodeAHoles == [id |-> IdA, children |-> <<NullSlot, NodeB, NullSlot>>]
DesignHoles == Design("holes", "T1", <<NodeAHoles>>)
DesignHoleRoot == Design("holeroot", "T1", <<NodeA, NullSlot>>)

SlotKeys == {KeyFAD, KeyF0AD}
SlotItems == {CacheItem(DesignFull, "T1"), CacheItem(DesignHoles, "T1"),
              CacheItem(DesignHoleRoot, "T1")}
SlotIds == {IdA, IdB, IdC, IdD}

InitSlots ==
  /\ cache = NewLRU(2)
  /\ procs = [p \in Procs |-> Idle]
  /\ touched = <<>>
  /\ putData = NoNodes
  /\ last = [op |-> "new"]

\* put, part_002:372-379
SlotPut(k, item) ==
  LET r == lruPut(cache, k, CacheItem(item.data, item.lastTouchedAt))
  IN /\ cache' = r.st
     /\ touched' = Keep(Touch(touched, k), r.st)
     /\ putData' = KeepData(NodeSet(putData, k, item.data), r.st)
     /\ last' = [op |-> "put"]
     /\ UNCHANGED procs

\* findNodeData(fileKey, nodeId), part_002:305-327: an error raised in
\* findNodeInCache rejects the promise
SlotFind(f, id) ==
  LET r == scanForNodeOnSlots(cache, lruForEach(cache), f, id)
  IN /\ last' = [op |-> "findNodeData", fileKey |-> f, nodeId |-> id,
                 threw |-> r.threw, ret |-> r.ret]
     /\ UNCHANGED <<cache, procs, touched, putData>>

NextSlots ==
  \/ \E k \in SlotKeys, item \in SlotItems : SlotPut(k, item)
  \/ \E f \in Files, id \in SlotIds : SlotFind(f, id)

SpecSlots == InitSlots /\ [][NextSlots]_vars

(***************************************************************************)
(* FigmaService.getNode with the cache enabled, over a remote file that    *)
(* does not change.  The calls are taken one after the other.              *)
(***************************************************************************)
\* figma.ts:62  new ParseDataCache(10)
ServiceCapacity == 10

\* the document of the remote file, and its lastModified
RemoteTree == <<NodeA>>
RemoteModified == "T1"

\* common.ts  normalizeFigmaNodeId: nodeId.replace(/-/g, ":")
normalizeFigmaNodeId(nodeId) ==
  [i \in 1..Len(nodeId) |-> IF nodeId[i] = "-" THEN ":" ELSE nodeId[i]]

\* String.prototype.trim on strings whose only blanks are spaces
RECURSIVE trimStart(_)
trimStart(s) == IF s # <<>> /\ Head(s) = " " THEN trimStart(Tail(s)) ELSE s
RECURSIVE trimEnd(_)
trimEnd(s) == IF s # <<>> /\ s[Len(s)] = " " THEN trimEnd(SubSeq(s, 1, Len(s) - 1)) ELSE s
trim(s) == trimEnd(trimStart(s))

\* figma.ts:240  nodeIds.split(",").map((id) => id.trim())
RECURSIVE splitComma(_, _)
splitComma(s, cur) ==
  IF s = <<>> THEN <<trim(cur)>>
  ELSE IF Head(s) = "," THEN <<trim(cur)>> \o splitComma(Tail(s), <<>>)
  ELSE splitComma(Tail(s), Append(cur, Head(s)))

\* figma.ts:261  missingNodeIds.join(",")
RECURSIVE joinComma(_)
joinComma(ids) ==
  IF ids = <<>> THEN <<>>
  ELSE IF Len(ids) = 1 THEN Head(ids)
  ELSE Head(ids) \o <<",">> \o joinComma(Tail(ids))

\* `${depth}` for the depths of the model
DigitString == <<"0", "1", "2", "3", "4", "5", "6", "7", "8", "9">>
numberToString(n) == <<DigitString[n + 1]>>

\* a falsy depth: undefined, null or 0
falsyDepth(depth) == depth = None \/ depth[1] = 0

\* figma.ts:225  `${fileKey}:${nodeIds}:${depth || "default"}`
getNodeCacheKey(fileKey, nodeIds, depth) ==
  MakeKey(fileKey, nodeIds, IF falsyDepth(depth) THEN DefaultTag ELSE numberToString(depth[1]))

\* the remote endpoint /files/:key/nodes?ids=..&depth=..: each requested
\* node with at most depth levels below it; the nodes at the ceiling come
\* without children
RECURSIVE remoteSubtree(_, _)
remoteSubtree(node, depth) ==
  IF ~hasChildren(node) THEN node
  ELSE IF depth <= 0 THEN withoutChildren(node)
  ELSE [node EXCEPT !.children =
          [i \in 1..Len(node.children) |-> remoteSubtree(node.children[i], depth - 1)]]

\* figma.ts:194-210  fetchAndProcessNodes: `depth ? "&depth=" + depth : ""`
fetchAndProcessNodes(fileKey, nodeIds, depth) ==
  LET ids == splitComma(nodeIds, <<>>)
      document(id) == findNodeInTree(RemoteTree, id)[1]
  IN Design("remote", RemoteModified,
            [i \in 1..Len(ids) |->
               IF falsyDepth(depth) THEN document(ids[i])
               ELSE remoteSubtree(document(ids[i]), depth[1])])

\* part_002:347  one turn of the loop: findNodeData for nodeId, settled
\* by the outcome of its metadata fetch if it makes one
findTurnSettle(st, fileKey, c, outcome) ==
  IF c.result = None
    THEN [st |-> st, ret |-> None]
    ELSE findSettle(st, fileKey, c.result[1], IF c.fetched THEN outcome ELSE NoFetch)

findTurn(st, fileKey, nodeId, requiredDepth, outcome) ==
  findTurnSettle(st, fileKey, findCall(st, fileKey, nodeId, TRUE, requiredDepth), outcome)

\* part_002:348-363  the locals after a turn that answered r
multiAccumulate(acc, r, fileKey, nodeId) ==
  [cachedNodes |-> IF r.ret # None THEN Append(acc.cachedNodes, r.ret[1])
                   ELSE acc.cachedNodes,
   missingNodeIds |-> IF r.ret # None THEN acc.missingNodeIds
                      ELSE Append(acc.missingNodeIds, nodeId),
   sourceDesign |-> IF r.ret # None /\ acc.sourceDesign = None
                      THEN scanForSource(r.st, lruForEach(r.st), fileKey, nodeId, None)
                      ELSE acc.sourceDesign]

\* part_002:332-367  findMultipleNodes with validationParams, run through
\* from turn i with the locals in acc; every metadata fetch of the run has
\* the given outcome
RECURSIVE findMultipleNodesRun(_, _, _, _, _, _, _)
findMultipleNodesStep(r, fileKey, nodeIds, i, requiredDepth, outcome, acc) ==
  findMultipleNodesRun(r.st, fileKey, nodeIds, i + 1, requiredDepth, outcome,
                       multiAccumulate(acc, r, fileKey, nodeIds[i]))

findMultipleNodesRun(st, fileKey, nodeIds, i, requiredDepth, outcome, acc) ==
  IF i > Len(nodeIds)
    THEN [st |-> st, cachedNodes |-> acc.cachedNodes,
          missingNodeIds |-> acc.missingNodeIds, sourceDesign |-> acc.sourceDesign]
    ELSE findMultipleNodesStep(findTurn(st, fileKey, nodeIds[i], requiredDepth, outcome),
                               fileKey, nodeIds, i, requiredDepth, outcome, acc)

\* put, part_002:372-379, on the store
cachePut(st, cacheKey, data, lastTouchedAt) ==
  lruPut(st, cacheKey, CacheItem(data, lastTouchedAt)).st

\* figma.ts:234  cache.get(cacheKey, validationParams), settled by the
\* outcome of its metadata fetch if it makes one
getExactSettle(g, cacheKey, outcome) ==
  IF g.cacheItem = None
    THEN [st |-> g.st, ret |-> None]
    ELSE getSettle(g.st, cacheKey, g.cacheItem[1], IF g.fetched THEN outcome ELSE NoFetch)

\* figma.ts:251-256  every node came from the cache: no request is made
getNodeMerged(m, cacheKey, mergedDesign) ==
  [st |-> cachePut(m.st, cacheKey, mergedDesign, m.sourceDesign[1].lastModified),
   ret |-> Some(mergedDesign), requests |-> <<>>, exactHit |-> FALSE, threw |-> FALSE,
   missingNodeIds |-> m.missingNodeIds]

\* figma.ts:266-281  the cached nodes and the fetched ones under the
\* metadata of sourceDesign || apiResponse; with neither of the two,
\* createDesignFromNodes reads a property of null and getNode rejects
getNodeFinal(m, cacheKey, requests, apiResponse) ==
  LET finalDesign ==
        mergeNodesAsDesign(IF m.sourceDesign # None THEN m.sourceDesign[1]
                           ELSE apiResponse[1],
                           m.cachedNodes \o (IF apiResponse # None
                                               THEN apiResponse[1].nodes ELSE <<>>))
  IN IF m.sourceDesign = None /\ apiResponse = None
       THEN [st |-> m.st, ret |-> None, requests |-> requests, exactHit |-> FALSE,
             threw |-> TRUE, missingNodeIds |-> m.missingNodeIds]
       ELSE [st |-> cachePut(m.st, cacheKey, finalDesign, finalDesign.lastModified),
             ret |-> Some(finalDesign), requests |-> requests, exactHit |-> FALSE,
             threw |-> FALSE, missingNodeIds |-> m.missingNodeIds]

\* figma.ts:259-264  the request for the missing nodes, missingNodeIdsStr
getNodeFetched(m, fileKey, cacheKey, depth, missingNodeIdsStr) ==
  getNodeFinal(m, cacheKey, missingNodeIdsStr,
               IF missingNodeIdsStr # <<>>
                 THEN Some(fetchAndProcessNodes(fileKey, missingNodeIdsStr[1], depth))
                 ELSE None)

\* getNode that asks the remote for the nodes it found in the cache as well
getNodeMiss_RefetchesHits(m, fileKey, cacheKey, depth) ==
  IF Len(m.missingNodeIds) = 0 /\ m.sourceDesign # None
    THEN getNodeMerged(m, cacheKey, mergeNodesAsDesign(m.sourceDesign[1], m.cachedNodes))
    ELSE getNodeFetched(m, fileKey, cacheKey, depth,
                        IF Len(m.missingNodeIds) > 0
                          THEN <<joinComma([i \in 1..Len(m.cachedNodes) |-> m.cachedNodes[i].id]
                                           \o m.missingNodeIds)>>
                          ELSE <<>>)

\* figma.ts:240-282  the branch taken when the exact key missed
getNodeMiss(m, fileKey, cacheKey, depth) ==
  IF Len(m.missingNodeIds) = 0 /\ m.sourceDesign # None
    THEN getNodeMerged(m, cacheKey, mergeNodesAsDesign(m.sourceDesign[1], m.cachedNodes))
    ELSE getNodeFetched(m, fileKey, cacheKey, depth,
                        IF Len(m.missingNodeIds) > 0
                          THEN <<joinComma(m.missingNodeIds)>>
                          ELSE <<>>)

\* figma.ts:233-283  after the exact lookup answered s
getNodeAfterExact(s, fileKey, nodeIds, cacheKey, depth, outcome) ==
  IF s.ret # None
    THEN [st |-> s.st, ret |-> s.ret, requests |-> <<>>, exactHit |-> TRUE,
          threw |-> FALSE, missingNodeIds |-> <<>>]
    ELSE getNodeMiss(findMultipleNodesRun(s.st, fileKey, splitComma(nodeIds, <<>>), 1, depth,
                                          outcome,
                                          [cachedNodes |-> <<>>, missingNodeIds |-> <<>>,
                                           sourceDesign |-> None]),
                     fileKey, cacheKey, depth)

getNodeKeyed(st, fileKey, nodeIds, cacheKey, depth, outcome) ==
  getNodeAfterExact(getExactSettle(getCall(st, cacheKey, TRUE), cacheKey, outcome),
                    fileKey, nodeIds, cacheKey, depth, outcome)

getNodeNormalized(st, fileKey, nodeIds, depth, outcome) ==
  getNodeKeyed(st, fileKey, nodeIds, getNodeCacheKey(fileKey, nodeIds, depth), depth, outcome)

\* figma.ts:212-288  getNode with useCache: the store afterwards, the
\* design returned, the id strings of the remote tree requests it made, and
\* the miss list findMultipleNodes handed it
getNode(st, fileKey, rawNodeIds, depth, outcome) ==
  getNodeNormalized(st, fileKey, normalizeFigmaNodeId(rawNodeIds), depth, outcome)

\* the node id strings handed to getNode
NodeIdArgs == {IdA, IdB}
\* getFileMeta of the unchanged file: its marker, or a failed request
RemoteOutcomes == {Meta(Some(RemoteModified)), Rejected}

InitNode ==
  /\ cache = NewLRU(ServiceCapacity)
  /\ procs = [p \in Procs |-> Idle]
  /\ touched = <<>>
  /\ putData = NoNodes
  /\ last = [op |-> "new"]

\* getNode(fileKey, nodeIds, depth), figma.ts:212-288
GetNode(f, ids, depth, outcome) ==
  LET r == getNode(cache, f, ids, depth, outcome)
  IN /\ cache' = r.st
     /\ touched' = <<>>
     /\ putData' = NoNodes
     /\ last' = [op |-> "getNode", fileKey |-> f, nodeIds |-> ids, depth |-> depth,
                 outcome |-> outcome, exactHit |-> r.exactHit, requests |-> r.requests,
                 missingNodeIds |-> r.missingNodeIds, ret |-> r.ret[1]]
     /\ UNCHANGED procs

NextNode ==
  \E ids \in NodeIdArgs, depth \in DepthArgs, outcome \in RemoteOutcomes :
    GetNode(FileF, ids, depth, outcome)

SpecNode == InitNode /\ [][NextNode]_vars

(***************************************************************************)
(* getNode for one node and for a list of two                              *)
(***************************************************************************)
\* "c,b": the ids of two nodes, as the tool hands them to getNode
IdsCB == <<"c", ",", "b">>
MissIdArgs == {IdC, IdsCB}

NextMiss ==
  \E ids \in MissIdArgs, depth \in DepthArgs, outcome \in RemoteOutcomes :
    GetNode(FileF, ids, depth, outcome)

SpecMiss == InitNode /\ [][NextMiss]_vars

(***************************************************************************)
(* FigmaService.getNode over a remote file that is edited.  getNode is     *)
(* taken in two steps, up to its await of fetchAndProcessNodes and from    *)
(* there on; procs holds the caller and the remote file.                   *)
(***************************************************************************)
\* the edit of the remote file renames every node
RECURSIVE renamed(_)
renamed(node) ==
  IF hasChildren(node)
    THEN [id |-> node.id, name |-> "renamed",
          children |-> [i \in 1..Len(node.children) |-> renamed(node.children[i])]]
    ELSE [id |-> node.id, name |-> "renamed"]

\* the remote file before the edit (version 1) and after it (version 2):
\* its document, the lastModified of its nodes response and the
\* last_touched_at of its metadata
RemoteFile(version) ==
  IF version = 1
    THEN [document |-> RemoteTree, lastModified |-> RemoteModified,
          last_touched_at |-> RemoteModified]
    ELSE [document |-> <<renamed(NodeA)>>, lastModified |-> "T2", last_touched_at |-> "T2"]

\* figma.ts:194-210  fetchAndProcessNodes answered by the given remote file
fetchAndProcessNodesFrom(remote, nodeIds, depth) ==
  LET ids == splitComma(nodeIds, <<>>)
      document(id) == findNodeInTree(remote.document, id)[1]
  IN Design("remote", remote.lastModified,
            [i \in 1..Len(ids) |->
               IF falsyDepth(depth) THEN document(ids[i])
               ELSE remoteSubtree(document(ids[i]), depth[1])])

InitRemote ==
  /\ cache = NewLRU(ServiceCapacity)
  /\ procs = [caller |-> Idle, remote |-> [version |-> 1]]
  /\ touched = <<>>
  /\ putData = NoNodes
  /\ last = [op |-> "new"]

\* figma.ts:218-257  getNode up to its return without a request (the exact
\* key or every node found in the cache) or to its await of
\* fetchAndProcessNodes; getFileMeta answers with the metadata of the
\* remote file as it is
RemoteGetNode(f, ids, depth) ==
  LET outcome == Meta(Some(RemoteFile(procs.remote.version).last_touched_at))
      cacheKey == getNodeCacheKey(f, normalizeFigmaNodeId(ids), depth)
      s == getExactSettle(getCall(cache, cacheKey, TRUE), cacheKey, outcome)
      m == findMultipleNodesRun(s.st, f, splitComma(normalizeFigmaNodeId(ids), <<>>), 1,
                                depth, outcome,
                                [cachedNodes |-> <<>>, missingNodeIds |-> <<>>,
                                 sourceDesign |-> None])
      r == IF s.ret # None
             THEN [st |-> s.st, ret |-> s.ret, awaits |-> FALSE]
           ELSE IF Len(m.missingNodeIds) = 0 /\ m.sourceDesign # None
             THEN [st |-> getNodeMiss(m, f, cacheKey, depth).st,
                   ret |-> getNodeMiss(m, f, cacheKey, depth).ret, awaits |-> FALSE]
           ELSE [st |-> m.st, ret |-> None, awaits |-> TRUE]
  IN /\ procs.caller = Idle
     /\ cache' = r.st
     /\ procs' = IF r.awaits
                   THEN [procs EXCEPT !.caller =
                           [pc |-> "getNode.fetch", fileKey |-> f, nodeIds |-> ids,
                            depth |-> depth, cacheKey |-> cacheKey, m |-> m]]
                   ELSE procs
     /\ last' = [op |-> "getNode", fileKey |-> f, nodeIds |-> ids, depth |-> depth,
                 done |-> ~r.awaits, cacheKey |-> cacheKey, fetched |-> FALSE,
                 ret |-> r.ret]
     /\ UNCHANGED <<touched, putData>>

\* figma.ts:259-283  getNode from the response of the remote file as it is
\* then
RemoteFetch ==
  LET pr == procs.caller
      missingNodeIdsStr == joinComma(pr.m.missingNodeIds)
      r == getNodeFinal([pr.m EXCEPT !.st = cache], pr.cacheKey, <<missingNodeIdsStr>>,
                        Some(fetchAndProcessNodesFrom(RemoteFile(procs.remote.version),
                                                      missingNodeIdsStr, pr.depth)))
  IN /\ pr.pc = "getNode.fetch"
     /\ cache' = r.st
     /\ procs' = [procs EXCEPT !.caller = Idle]
     /\ last' = [op |-> "getNode", fileKey |-> pr.fileKey, nodeIds |-> pr.nodeIds,
                 depth |-> pr.depth, done |-> TRUE, cacheKey |-> pr.cacheKey,
                 fetched |-> TRUE, ret |-> r.ret]
     /\ UNCHANGED <<touched, putData>>

\* somebody edits the remote file
RemoteEdit ==
  /\ procs.remote.version = 1
  /\ procs' = [procs EXCEPT !.remote.version = 2]
  /\ last' = [op |-> "edit"]
  /\ UNCHANGED <<cache, touched, putData>>

NextRemote ==
  \/ \E ids \in MissIdArgs, depth \in DepthArgs : RemoteGetNode(FileF, ids, depth)
  \/ RemoteFetch
  \/ RemoteEdit

SpecRemote == InitRemote /\ [][NextRemote]_vars

(***************************************************************************)
(* getNode over a remote file that does not change and whose metadata      *)
(* reports a last_touched_at that is, or is not, the same string as the    *)
(* lastModified of its nodes response                                      *)
(***************************************************************************)
TouchedMarkers == {RemoteModified, "T0"}

InitMarker ==
  /\ cache = NewLRU(ServiceCapacity)
  /\ \E t \in TouchedMarkers : procs = [caller |-> Idle, remote |-> [last_touched_at |-> t]]
  /\ touched = <<>>
  /\ putData = NoNodes
  /\ last = [op |-> "new"]

NextMarker ==
  \E ids \in NodeIdArgs, depth \in DepthArgs :
    GetNode(FileF, ids, depth, Meta(Some(procs.remote.last_touched_at)))

SpecMarker == InitMarker /\ [][NextMarker]_vars

(***************************************************************************)
(* getNode over a remote file whose nodes are instances of components: the *)
(* nodes response lists, for each requested node, the components its       *)
(* subtree refers to, and parseFigmaResponse joins these tables            *)
(***************************************************************************)
\* the node as an instance of the component "K" + id, with its children
RECURSIVE instance(_)
instance(node) ==
  IF hasChildren(node)
    THEN [id |-> node.id, componentId |-> <<"K">> \o node.id,
          children |-> [i \in 1..Len(node.children) |-> instance(node.children[i])]]
    ELSE [id |-> node.id, componentId |-> <<"K">> \o node.id]

\* the component ids the nodes of a forest refer to
RECURSIVE componentIdsOf(_)
componentIdsOf(nodes) ==
  IF nodes = <<>>
    THEN {}
    ELSE LET node == Head(nodes)
         IN (IF "componentId" \in DOMAIN node THEN {node.componentId} ELSE {})
              \cup (IF hasChildren(node) THEN componentIdsOf(node.children) ELSE {})
              \cup componentIdsOf(Tail(nodes))

\* figma.ts:194-210  fetchAndProcessNodes: the requested documents with the
\* components tables of the response joined
fetchAndProcessInstances(nodeIds, depth) ==
  LET apiResponse == fetchAndProcessNodesFrom([document |-> <<instance(NodeA)>>,
                                               lastModified |-> RemoteModified],
                                              nodeIds, depth)
  IN [apiResponse EXCEPT !.components = componentIdsOf(apiResponse.nodes)]

\* getNode(fileKey, nodeIds, depth), figma.ts:212-288, over this file
InstanceGetNode(f, ids, depth, outcome) ==
  LET cacheKey == getNodeCacheKey(f, normalizeFigmaNodeId(ids), depth)
      s == getExactSettle(getCall(cache, cacheKey, TRUE), cacheKey, outcome)
      m == findMultipleNodesRun(s.st, f, splitComma(normalizeFigmaNodeId(ids), <<>>), 1,
                                depth, outcome,
                                [cachedNodes |-> <<>>, missingNodeIds |-> <<>>,
                                 sourceDesign |-> None])
      missingNodeIdsStr == joinComma(m.missingNodeIds)
      apiResponse == fetchAndProcessInstances(missingNodeIdsStr, depth)
      r == IF s.ret # None
             THEN [st |-> s.st, ret |-> s.ret]
           ELSE IF Len(m.missingNodeIds) = 0 /\ m.sourceDesign # None
             THEN [st |-> getNodeMiss(m, f, cacheKey, depth).st,
                   ret |-> getNodeMiss(m, f, cacheKey, depth).ret]
           ELSE [st |-> getNodeFinal(m, cacheKey, <<missingNodeIdsStr>>, Some(apiResponse)).st,
                 ret |-> getNodeFinal(m, cacheKey, <<missingNodeIdsStr>>, Some(apiResponse)).ret]
      fetched == s.ret = None /\ Len(m.missingNodeIds) > 0
  IN /\ cache' = r.st
     /\ last' = [op |-> "getNode", fileKey |-> f, nodeIds |-> ids, depth |-> depth,
                 outcome |-> outcome, fetched |-> fetched,
                 cachedNodes |-> IF s.ret = None THEN m.cachedNodes ELSE <<>>,
                 apiResponse |-> IF fetched THEN Some(apiResponse) ELSE None,
                 ret |-> r.ret[1]]
     /\ UNCHANGED <<procs, touched, putData>>

NextInstance ==
  \E ids \in MissIdArgs, depth \in DepthArgs, outcome \in RemoteOutcomes :
    InstanceGetNode(FileF, ids, depth, outcome)

SpecInstance == InitNode /\ [][NextInstance]_vars

(***************************************************************************)
(* The lookups of one caller under their scheduling                        *)
(***************************************************************************)
InitReturn ==
  /\ cache = NewLRU(2)
  /\ procs = [p \in Procs |-> Idle]
  /\ touched = <<>>
  /\ putData = NoNodes
  /\ last = [op |-> "new"]

NextReturn ==
  \/ \E k \in TwoKeys, item \in CacheItems : Put(k, item)
  \/ \E p \in Procs, k \in TwoKeys, validate \in BOOLEAN : Get(p, k, validate)
  \/ \E p \in Procs, outcome \in FetchOutcomes \cup {NoFetch} : GetSettle(p, outcome)
  \/ \E p \in Procs, id \in {IdA, IdC}, validate \in BOOLEAN :
       FindNodeData(p, FileF, id, validate, None)
  \/ \E p \in Procs, outcome \in FetchOutcomes \cup {NoFetch} : FindSettle(p, outcome)
  \/ \E p \in Procs, ids \in IdLists, validate \in BOOLEAN :
       FindMultipleNodes(p, FileF, ids, validate, None)
  \/ \E p \in Procs, outcome \in FetchOutcomes \cup {NoFetch} : MultiSettle(p, outcome)
  \/ \E p \in Procs : MultiReturn(p)

\* Every metadata fetch a lookup waits for resolves or rejects, a validation
\* that fetches nothing settles, and the loop of findMultipleNodes is resumed
\* when the findNodeData it awaits has returned.
LookupFairness ==
  /\ WF_vars(\E p \in Procs, outcome \in FetchOutcomes \cup {NoFetch} : GetSettle(p, outcome))
  /\ WF_vars(\E p \in Procs, outcome \in FetchOutcomes \cup {NoFetch} : FindSettle(p, outcome))
  /\ WF_vars(\E p \in Procs, outcome \in FetchOutcomes \cup {NoFetch} : MultiSettle(p, outcome))
  /\ WF_vars(\E p \in Procs : MultiReturn(p))

SpecReturn == InitReturn /\ [][NextReturn]_vars /\ LookupFairness

(***************************************************************************)
(* Properties                                                              *)
(***************************************************************************)
Stored(st) == MapKeys(st.cache)
ValueOf(st, k) == st.node[k].value
Changed(st, st2) == {k \in Stored(st) \cap Stored(st2) : ValueOf(st, k) # ValueOf(st2, k)}

\* the keys met by following next from head, most recently used first
RECURSIVE chainFrom(_, _, _)
chainFrom(st, k, n) ==
  IF k = Null \/ n = 0 THEN <<>> ELSE <<k>> \o chainFrom(st, st.node[k].next, n - 1)
RecencyChain(st) == chainFrom(st, st.head, Len(st.cache))

\* the recency chain once k has been touched
Promoted(chain, k) == <<k>> \o SelectSeq(chain, LAMBDA x : x # k)

\* the entry the next evicting put removes (lruEvict removes the tail)
NextVictim(st) == st.tail

\* C1: after any sequence of put, get, delete and clear on a store built
\* with capacity N, 0 included, the store holds at most N entries.
C1_AtMostCapacity == Len(cache.cache) <= cache.capacity

C3_GetAlwaysChangesVictim ==
  [][(last'.op = "get" /\ ~last'.settled /\ Len(cache.cache) <= cache.capacity)
     => IF last'.hit
          THEN /\ cache'.head = last'.key
               /\ NextVictim(cache') # NextVictim(cache)
          ELSE /\ last'.ret = None
               /\ cache' = cache]_vars

\* C3 as amended: a get that hits makes the entry the most recently used and
\* leaves the stored entries as they are; the next eviction victim changes
\* exactly when the entry was the least recently used one and the store
\* holds at least two entries, and is then the entry touched least recently
\* among the others; a get that misses returns nothing and changes nothing.
C3_GetPromotes ==
  [][(last'.op = "get" /\ ~last'.settled)
     => /\ last'.hit = (last'.key \in DOMAIN putData)
        /\ IF last'.hit
             THEN /\ RecencyChain(cache') = Promoted(RecencyChain(cache), last'.key)
                  /\ cache'.head = last'.key
                  /\ cache'.cache = cache.cache
                  /\ Changed(cache, cache') = {}
                  /\ NextVictim(cache') = Head(touched')
                  /\ (NextVictim(cache') # NextVictim(cache))
                       <=> (NextVictim(cache) = last'.key /\ Len(cache.cache) >= 2)
             ELSE /\ last'.ret = None
                  /\ cache' = cache]_vars

C3_Witness ==
  /\ last.op = "get"
  /\ last.hit
  /\ Len(cache.cache) = 2
  /\ cache.head = last.key
  /\ cache.cache[2] = last.key

\* C4: a put on a stored key replaces its snapshot and marker, makes it the
\* most recently used entry and evicts nothing, also at full capacity.
C4_PutOverwrites ==
  [][(last'.op = "put" /\ MapHas(cache.cache, last'.key))
     => /\ cache'.cache = cache.cache
        /\ Removed(cache, cache') = {}
        /\ ValueOf(cache', last'.key) = last'.item
        /\ Changed(cache, cache') \subseteq {last'.key}
        /\ RecencyChain(cache') = Promoted(RecencyChain(cache), last'.key)
        /\ NextVictim(cache') = Head(touched')]_vars

C4_Witness ==
  /\ last.op = "put"
  /\ last.present
  /\ cache.capacity = 2
  /\ Len(cache.cache) = cache.capacity
  /\ cache.tail # last.key

\* C5: has(key) is true exactly for the stored keys and leaves the entries,
\* their recency order and so the next eviction victim as they are.
C5_HasOnlyReads ==
  [][last'.op = "has"
     => /\ last'.ret = (last'.key \in DOMAIN putData)
        /\ cache' = cache
        /\ RecencyChain(cache') = RecencyChain(cache)
        /\ NextVictim(cache') = NextVictim(cache)]_vars

C5_Witness ==
  /\ last.op = "has"
  /\ last.ret
  /\ Len(cache.cache) = 2
  /\ NextVictim(cache) = last.key

\* what a settling lookup validated, and whether the validation failed
SettledItem(pr) == IF pr.pc = "get" THEN pr.cacheItem
                   ELSE IF pr.pc = "find" THEN pr.result.cacheItem
                   ELSE pr.result[1].cacheItem
FileKeys(st, f) == {k \in Stored(st) : startsWith(k, f \o Colon)}

\* C6: an entry leaves the cache only through an evicting put, a failed
\* freshness validation, clearFileCache or clearAllCache, and a stored value
\* changes only through a put on its key: has, a lookup whose validation is
\* absent or passes, and mergeNodesAsDesign remove and change nothing.
C6_EntriesLeaveOnlyByTheListedOperations ==
  [][(Removed(cache, cache') # {} \/ Changed(cache, cache') # {})
     => \/ /\ last'.op = "put"
           /\ ~MapHas(cache.cache, last'.key)
           /\ Len(cache.cache) >= cache.capacity
           /\ Removed(cache, cache') = {Head(touched)}
           /\ Changed(cache, cache') = {}
        \/ /\ last'.op = "put"
           /\ Removed(cache, cache') = {}
           /\ Changed(cache, cache') = {last'.key}
        \/ /\ last'.op = "get"
           /\ last'.settled
           /\ validateCacheItem(SettledItem(procs[last'.proc]), last'.outcome) = "stale"
           /\ Removed(cache, cache') = {last'.key}
           /\ Changed(cache, cache') = {}
        \/ /\ last'.op = "findNodeData"
           /\ last'.settled
           /\ validateCacheItem(SettledItem(procs[last'.proc]), last'.outcome) = "stale"
           /\ Removed(cache, cache') = FileKeys(cache, last'.fileKey)
           /\ Changed(cache, cache') = {}
        \/ /\ last'.op = "findMultipleNodes.findNodeData"
           /\ last'.stale
           /\ Removed(cache, cache') = FileKeys(cache, last'.fileKey)
           /\ Changed(cache, cache') = {}
        \/ /\ last'.op = "clearFileCache"
           /\ Removed(cache, cache') = FileKeys(cache, last'.fileKey)
           /\ Changed(cache, cache') = {}
        \/ /\ last'.op = "clearAllCache"
           /\ Stored(cache') = {}]_vars

C6_Witness ==
  /\ last.op = "findNodeData"
  /\ last.settled
  /\ last.fetched
  /\ last.ret # None
  /\ Len(cache.cache) = 2

\* C7: get(key) without validation returns the snapshot of the latest put on
\* the key when the key is stored, and not found when it is not (never put,
\* or removed since).
C7_GetReturnsLatestPut ==
  [][(last'.op = "get" /\ ~last'.validate)
     => /\ last'.done
        /\ ~last'.threw
        /\ last'.ret = IF last'.key \in DOMAIN putData
                         THEN Some(putData[last'.key])
                         ELSE None
        /\ DOMAIN putData = Stored(cache)]_vars

C7_Witness ==
  /\ last.op = "get"
  /\ ~last.validate
  /\ last.ret = Some(DesignCut)
  /\ Len(cache.cache) = 2
  /\ cache.cache[1] = last.key

C9_EmptyMarkerIsFresh ==
  [][/\ \A p \in Procs :
          (procs'[p].pc \in {"get", "find"} /\ SettledItem(procs'[p]).lastTouchedAt = "")
            => /\ ~procs'[p].fetched
               /\ \A o \in FetchOutcomes :
                    validateCacheItem(SettledItem(procs'[p]), o) = "fresh"
     /\ (/\ last'.op \in {"get", "findNodeData"}
         /\ last'.settled
         /\ SettledItem(procs[last'.proc]).lastTouchedAt = "")
        => /\ ~last'.fetched
           /\ ~last'.threw
           /\ last'.ret = IF last'.op = "get"
                            THEN Some(procs[last'.proc].cacheItem.data)
                            ELSE Some(procs[last'.proc].result.node)
           /\ cache' = cache]_vars

C9_Witness ==
  /\ last.op = "get"
  /\ last.settled
  /\ ~last.fetched
  /\ last.ret = Some(DesignCut)
  /\ MapHas(cache.cache, last.key)

\* C10: when the metadata fetch fails during validation, get and
\* findNodeData return the cached data, keep every entry, and no error
\* reaches the caller.
C10_FetchFailureIsFresh ==
  [][(/\ last'.op \in {"get", "findNodeData"}
      /\ last'.settled
      /\ last'.fetched
      /\ ~last'.outcome.ok)
     => /\ ~last'.threw
        /\ last'.ret = IF last'.op = "get"
                         THEN Some(procs[last'.proc].cacheItem.data)
                         ELSE Some(procs[last'.proc].result.node)
        /\ cache' = cache]_vars

C10_Witness ==
  /\ last.op = "findNodeData"
  /\ last.settled
  /\ last.outcome = Rejected
  /\ last.ret # None
  /\ Len(cache.cache) = 2

RECURSIVE KeptAboveCut(_, _, _)
KeptAboveCut(orig, res, d) ==
  /\ res.id = orig.id
  /\ IF d <= 0 THEN ~hasChildren(res)
     ELSE /\ hasChildren(res) <=> hasChildren(orig)
          /\ hasChildren(orig) =>
               /\ Len(res.children) = Len(orig.children)
               /\ \A i \in 1..Len(orig.children) :
                    KeptAboveCut(orig.children[i], res.children[i], d - 1)

Min(x, y) == IF x <= y THEN x ELSE y
Max(x, y) == IF x >= y THEN x ELSE y

\* C16: limit(node, d) has subtree depth min(depth(node), max(d, 0)); for
\* d <= 0 it has no children field at all; every node kept above the cut
\* keeps its id and its children in the same order.
C16_LimitCutsAtDepth ==
  last.op = "limitNodeDepth" =>
    /\ getNodeDepth(last.ret) = Min(getNodeDepth(last.node), Max(last.maxDepth, 0))
    /\ last.maxDepth <= 0 => "children" \notin DOMAIN last.ret
    /\ KeptAboveCut(last.node, last.ret, last.maxDepth)

\* a tree of depth 3 has been cut two levels below its root
C16_Witness ==
  /\ last.op = "limitNodeDepth"
  /\ last.node = NodeP
  /\ last.maxDepth = 2
  /\ getNodeDepth(last.ret) = 2
  /\ last.ret # last.node


\* the nodes of a forest, each with the level it is stored at (roots at 0)
RECURSIVE Placed(_, _)
Placed(forest, level) ==
  UNION {{[node |-> forest[i], level |-> level]}
           \cup (IF hasChildren(forest[i]) THEN Placed(forest[i].children, level + 1) ELSE {})
         : i \in 1..Len(forest)}

\* where a snapshot stores the node with the given id (ids are unique in a
\* snapshot)
StoredAt(data, id) == {x \in Placed(data.nodes, 0) : x.node.id = id}

\* the file and the depth tag of the keys of the lookup stores
OfFile(k, f) ==
  \/ f = FileF /\ k \in {KeyFAD, KeyFA1, KeyFA2}
  \/ f = FileF0 /\ k = KeyF0AD
KeyTag(k) == IF k = KeyFA1 THEN Some(1) ELSE IF k = KeyFA2 THEN Some(2) ELSE None

\* eligibility of an entry for a query with requiredDepth absent
EligibleUnbounded(k, item, f, id) ==
  /\ OfFile(k, f)
  /\ \E x \in StoredAt(item.data, id) :
       KeyTag(k) # None => x.level + getNodeDepth(x.node) < KeyTag(k)[1]

\* the keys of the store, in the order the scan visits them
ScanOrder(st) == st.cache

FirstUnbounded(st, f, id) ==
  SelectSeq(ScanOrder(st), LAMBDA k : EligibleUnbounded(k, ValueOf(st, k), f, id))

\* C12: for findNodeData with requiredDepth absent an entry of the file with
\* integer depth tag T answers exactly when the node is found in its
\* snapshot and rootDepth + subtreeDepth < T; otherwise it is skipped, and
\* the query returns not found when no entry of the file answers.
C12_TaggedEntryAnswersBelowCeiling ==
  (last.op = "findNodeData" /\ last.requiredDepth = None) =>
    LET eligible == FirstUnbounded(cache, last.fileKey, last.nodeId)
    IN IF eligible = <<>>
         THEN last.ret = None
         ELSE \E x \in StoredAt(ValueOf(cache, Head(eligible)).data, last.nodeId) :
                last.ret = Some(x.node)

\* a tagged entry that stores the node at its ceiling was skipped and a
\* tagged entry with a higher ceiling answered
C12_Witness ==
  /\ last.op = "findNodeData"
  /\ last.requiredDepth = None
  /\ last.fileKey = FileF
  /\ last.nodeId = IdA
  /\ ScanOrder(cache) = <<KeyFA1, KeyFA2>>
  /\ ValueOf(cache, KeyFA1).data = DesignCut
  /\ ValueOf(cache, KeyFA2).data = DesignCut
  /\ last.ret = Some(NodeACut)


\* what a remote fetch with depth ceiling t returns for a true tree: the
\* nodes at level t come without children
RECURSIVE CutAt(_, _)
CutAt(node, t) ==
  IF ~hasChildren(node) THEN node
  ELSE IF t <= 0 THEN [id |-> node.id]
  ELSE [node EXCEPT !.children = [i \in 1..Len(node.children) |-> CutAt(node.children[i], t - 1)]]
Fetched(source, t) == [i \in 1..Len(source) |-> CutAt(source[i], t)]

\* the true 3-level trees (levels 0, 1, 2) of the lookup stores
SourceTrees == {<<NodeA>>, <<NodeAWide, NodeE>>}

\* the deepest level the true subtree of a node reaches
TrueReach(x) == x.level + getNodeDepth(x.node)

\* the last step was a lookup with requiredDepth absent of a node of the
\* true tree source in file "f", whose only entry is the fetch of source
\* with ceiling 1 stored under depth tag 1
TagOneLookup(source, x) ==
  /\ last.op = "findNodeData"
  /\ last.requiredDepth = None
  /\ last.fileKey = FileF
  /\ {k \in Stored(cache) : OfFile(k, FileF)} = {KeyFA1}
  /\ ValueOf(cache, KeyFA1).data.nodes = Fetched(source, 1)
  /\ x \in Placed(source, 0)
  /\ x.node.id = last.nodeId

\* C13 as stated: with a snapshot of a 3-level tree stored under depth tag 1,
\* a lookup with requiredDepth absent returns not found for a node whose
\* true subtree reaches level 2 and returns the node when its true subtree
\* lies within the levels the fetch captured (levels 0 and 1).
C13_CapturedSubtreeIsFound ==
  \A source \in SourceTrees : \A x \in Placed(source, 0) :
    TagOneLookup(source, x) =>
      /\ TrueReach(x) >= 2 => last.ret = None
      /\ TrueReach(x) <= 1 => last.ret = Some(x.node)

\* C13, amended: not found for a node whose true subtree reaches level 2;
\* found for a node whose true subtree ends above level 1 (rootDepth +
\* subtreeDepth < depthTag); a node whose true subtree ends exactly at
\* level 1 is captured in full but is not found either.
C13_SubtreeBelowCeilingIsFound ==
  \A source \in SourceTrees : \A x \in Placed(source, 0) :
    TagOneLookup(source, x) =>
      /\ TrueReach(x) >= 2 => last.ret = None
      /\ TrueReach(x) = 1 => last.ret = None
      /\ TrueReach(x) < 1 => last.ret = Some(x.node)

\* the childless root e was found in the depth-1 snapshot of a 3-level tree
C13_Witness ==
  /\ TagOneLookup(<<NodeAWide, NodeE>>, [node |-> NodeE, level |-> 0])
  /\ last.ret = Some(NodeE)


\* the maximum subtree depth over the roots of a snapshot
RealizedDepth(data) == SetMax({0} \cup {getNodeDepth(data.nodes[i]) : i \in 1..Len(data.nodes)})

\* eligibility of an entry for a query with the finite requiredDepth d
EligibleBounded(k, item, f, id, d) ==
  /\ OfFile(k, f)
  /\ \E x \in StoredAt(item.data, id) :
       \/ RealizedDepth(item.data) >= d
       \/ getNodeDepth(x.node) >= d

\* C14: for findNodeData with a finite requiredDepth d an entry of the file
\* answers exactly when the node is found in its snapshot and the maximum
\* subtree depth over the snapshot's roots is >= d or the node's own stored
\* subtree depth is >= d; a snapshot whose realized depth is below d never
\* answers.
C14_BoundedQueryNeedsRealizedDepth ==
  (last.op = "findNodeData" /\ last.requiredDepth # None) =>
    LET d == last.requiredDepth[1]
        eligible == {k \in Stored(cache) :
                       EligibleBounded(k, ValueOf(cache, k), last.fileKey, last.nodeId, d)}
    IN /\ last.ret # None <=> eligible # {}
       /\ last.ret # None =>
            /\ last.ret[1].id = last.nodeId
            /\ \E k \in Stored(cache) :
                 /\ OfFile(k, last.fileKey)
                 /\ RealizedDepth(ValueOf(cache, k).data) >= d

\* the leaf root e was answered for requiredDepth 2 by a snapshot of
\* realized depth 2, and a snapshot of realized depth 1 in the same file
\* was passed over
C14_Witness ==
  /\ last.op = "findNodeData"
  /\ last.requiredDepth = Some(2)
  /\ last.fileKey = FileF
  /\ last.nodeId = IdE
  /\ ScanOrder(cache) = <<KeyFA1, KeyFAD>>
  /\ ValueOf(cache, KeyFA1).data = DesignWideCut
  /\ ValueOf(cache, KeyFAD).data = DesignWide
  /\ last.ret = Some(NodeE)


FirstBounded(st, f, id, d) ==
  SelectSeq(ScanOrder(st), LAMBDA k : EligibleBounded(k, ValueOf(st, k), f, id, d))

\* the stored node a hit is taken from: the node in the snapshot of the
\* first eligible entry in scan order
HitSources(st, f, id, depth) ==
  LET eligible == IF depth = None THEN FirstUnbounded(st, f, id)
                  ELSE FirstBounded(st, f, id, depth[1])
  IN IF eligible = <<>> THEN {}
     ELSE {x.node : x \in StoredAt(ValueOf(st, Head(eligible)).data, id)}

\* C15: a hit of findNodeData with a finite requiredDepth d >= 0 returns
\* limit(stored node, d): the stored node's id, subtree depth at most d, no
\* children field for d = 0; with requiredDepth absent it returns the stored
\* node with its full stored subtree.
C15_HitIsLimitedToRequiredDepth ==
  (last.op = "findNodeData" /\ last.ret # None) =>
    \E stored \in HitSources(cache, last.fileKey, last.nodeId, last.requiredDepth) :
      IF last.requiredDepth = None
        THEN last.ret[1] = stored
        ELSE LET d == last.requiredDepth[1]
             IN /\ last.ret[1] = limitNodeDepth(stored, d)
                /\ last.ret[1].id = stored.id
                /\ getNodeDepth(last.ret[1]) <= d
                /\ KeptAboveCut(stored, last.ret[1], d)
                /\ d = 0 => "children" \notin DOMAIN last.ret[1]

\* root a, stored with depth 2, was returned cut to depth 1
C15_Witness ==
  /\ last.op = "findNodeData"
  /\ last.requiredDepth = Some(1)
  /\ last.nodeId = IdA
  /\ last.fileKey = FileF
  /\ ScanOrder(cache) = <<KeyFAD>>
  /\ ValueOf(cache, KeyFAD).data = DesignFull
  /\ last.ret = Some(NodeACut)


\* eligibility of an entry for a query, whatever its requiredDepth
EligibleFor(k, item, f, id, depth) ==
  IF depth = None THEN EligibleUnbounded(k, item, f, id)
  ELSE EligibleBounded(k, item, f, id, depth[1])

\* C17: findNodeData(fileKey, nodeId, ...) returns a node only when a stored
\* entry whose key starts with "<fileKey>:" contains the node id and is
\* eligible for the requested depth, and returns not found otherwise; a node
\* cached only under another file's keys is never returned.
C17_OnlyEligibleEntriesOfTheFile ==
  last.op = "findNodeData" =>
    LET answering == {k \in Stored(cache) :
                        /\ startsWith(k, last.fileKey \o Colon)
                        /\ OfFile(k, last.fileKey)
                        /\ StoredAt(ValueOf(cache, k).data, last.nodeId) # {}
                        /\ EligibleFor(k, ValueOf(cache, k), last.fileKey, last.nodeId,
                                       last.requiredDepth)}
    IN /\ last.ret # None <=> answering # {}
       /\ last.ret # None => last.ret[1].id = last.nodeId

\* node a is cached under a key of file "f0" only, and the lookup in file
\* "f" returned not found
C17_Witness ==
  /\ last.op = "findNodeData"
  /\ last.fileKey = FileF
  /\ last.nodeId = IdA
  /\ last.requiredDepth = None
  /\ ScanOrder(cache) = <<KeyF0AD>>
  /\ ValueOf(cache, KeyF0AD).data = DesignFull
  /\ last.ret = None


\* the stale verdict: a non-empty stored marker and a fetched marker that
\* is present, non-empty and different
IsStale(cacheItem, outcome) ==
  /\ cacheItem.lastTouchedAt # ""
  /\ outcome.ok
  /\ outcome.last_touched_at # None
  /\ outcome.last_touched_at[1] # ""
  /\ outcome.last_touched_at[1] # cacheItem.lastTouchedAt

InMulti(pr) == pr.pc \in {"multi.validate", "multi.return"}

\* the ids of a list of nodes
IdsOf(nodes) == [i \in 1..Len(nodes) |-> nodes[i].id]

\* the hit list and the miss list of a call after a step: its locals while
\* it runs, what it returned when the step was its return
ListsAfter(pr2, lst) ==
  IF InMulti(pr2)
    THEN [cachedNodes |-> pr2.cachedNodes, missingNodeIds |-> pr2.missingNodeIds]
    ELSE [cachedNodes |-> lst.ret.cachedNodes, missingNodeIds |-> lst.ret.missingNodeIds]

\* the findNodeData call for nodeIds[i] was started in this step
StartsLookup(pr, pr2) ==
  /\ InMulti(pr2)
  /\ \/ pr.pc = "idle"
     \/ pr.pc = "multi.return" /\ pr2.i = pr.i + 1

\* C19: findMultipleNodes resolves each id on its own over all entries of
\* the file (an id misses exactly when no entry of the file is eligible for
\* it, whatever the other ids do), every turn of the loop adds the id either
\* to the hit list, as one node with that id, or to the miss list, never to
\* both and never to neither, and both lists keep the input order.
C19_HitsAndMissesPartitionTheInput ==
  [][\A p \in Procs :
       LET pr == procs[p]
           pr2 == procs'[p]
       IN /\ StartsLookup(pr, pr2) =>
               LET found == pr2.pc = "multi.validate" \/ pr2.cachedNode # None
               IN found <=>
                    \E k \in Stored(cache) :
                      EligibleFor(k, ValueOf(cache, k), pr2.fileKey,
                                  pr2.nodeIds[pr2.i], pr2.requiredDepth)
          /\ (pr.pc = "multi.return" /\ pr2 # pr) =>
               LET nodeId == pr.nodeIds[pr.i]
                   after == ListsAfter(pr2, last')
                   hitIds == IdsOf(after.cachedNodes)
                   seen == SubSeq(pr.nodeIds, 1, pr.i)
                   missed == {after.missingNodeIds[i] : i \in 1..Len(after.missingNodeIds)}
               IN /\ \/ /\ hitIds = Append(IdsOf(pr.cachedNodes), nodeId)
                        /\ after.missingNodeIds = pr.missingNodeIds
                     \/ /\ after.cachedNodes = pr.cachedNodes
                        /\ after.missingNodeIds = Append(pr.missingNodeIds, nodeId)
                  /\ Len(hitIds) + Len(after.missingNodeIds) = pr.i
                  /\ after.missingNodeIds = SelectSeq(seen, LAMBDA x : x \in missed)
                  /\ hitIds = SelectSeq(seen, LAMBDA x : x \notin missed)]_vars

\* node c is cached only in a snapshot under depth tag 1, which cannot
\* answer a query with requiredDepth absent, and node a was answered by the
\* other entry: hits = [a], misses = [c]
C19_Witness ==
  /\ last.op = "findMultipleNodes"
  /\ last.done
  /\ last.ret.missingNodeIds = <<IdC>>
  /\ last.ret.cachedNodes = <<NodeACut>>
  /\ Stored(cache) = {KeyFA1, KeyFAD}
  /\ ValueOf(cache, KeyFA1).data = DesignFull
  /\ ValueOf(cache, KeyFAD).data = DesignCut


\* the source snapshot of a call after a step
SourceAfter(pr2, lst) == IF InMulti(pr2) THEN pr2.sourceDesign ELSE lst.ret.sourceDesign

\* the entry that answers a lookup in the store st: the first eligible one
\* in scan order
Winner(st, f, id, depth) ==
  IF depth = None THEN FirstUnbounded(st, f, id) ELSE FirstBounded(st, f, id, depth[1])

\* C20: the source snapshot that findMultipleNodes returns is the snapshot
\* of the backing entry of the first hit, the entry from which findNodeData
\* took the first node of the hit list.  Stated for the turns in which the
\* backing entry is still the entry that answers the lookup and a source
\* snapshot is picked.
C20_SourceIsBackingEntryOfFirstHit ==
  [][\A p \in Procs :
       LET pr == procs[p]
           pr2 == procs'[p]
           winner == Winner(cache, pr.fileKey, pr.nodeIds[pr.i], pr.requiredDepth)
       IN (/\ pr.pc = "multi.return"
           /\ pr2 # pr
           /\ pr.cachedNode # None
           /\ pr.cachedNodes = <<>>
           /\ winner # <<>>
           /\ pr.backing = Some(ValueOf(cache, Head(winner)).data)
           /\ SourceAfter(pr2, last') # None)
          => SourceAfter(pr2, last') = pr.backing]_vars


\* C21: findMultipleNodes with an empty id list returns at once an empty hit
\* list, an empty miss list and no source snapshot, whatever the cache
\* holds; it suspends on no validation, so it makes no metadata fetch, and
\* it leaves the store as it is.
C21_EmptyQueryReturnsNothing ==
  [][(/\ last'.op = "findMultipleNodes"
      /\ "nodeIds" \in DOMAIN last'
      /\ last'.nodeIds = <<>>)
     => /\ last'.done
        /\ ~last'.threw
        /\ last'.ret.cachedNodes = <<>>
        /\ last'.ret.missingNodeIds = <<>>
        /\ last'.ret.sourceDesign = None
        /\ procs' = procs
        /\ \A p \in Procs : procs'[p] = Idle
        /\ cache' = cache]_vars

\* the empty query was answered over a store that holds two entries of the
\* file, one of them with a marker that a validation would have to fetch for
C21_Witness ==
  /\ last.op = "findMultipleNodes"
  /\ "nodeIds" \in DOMAIN last
  /\ last.nodeIds = <<>>
  /\ last.fileKey = FileF
  /\ last.ret.sourceDesign = None
  /\ Stored(cache) = {KeyFAD, KeyFA1}
  /\ ValueOf(cache, KeyFAD).lastTouchedAt = "T1"


\* C22: clearFileCache(f) removes every entry whose key starts with "f:" and
\* no other entry: the entries of other files, a file whose key begins with
\* f included, stay stored with their snapshot and marker, in the same
\* recency order and the same scan order.
C22_ClearFileRemovesExactlyTheFile ==
  [][last'.op = "clearFileCache"
     => LET f == last'.fileKey
            others(seq) == SelectSeq(seq, LAMBDA k : ~OfFile(k, f))
        IN /\ Stored(cache') = {k \in Stored(cache) : ~OfFile(k, f)}
           /\ \A k \in Stored(cache') : ValueOf(cache', k) = ValueOf(cache, k)
           /\ RecencyChain(cache') = others(RecencyChain(cache))
           /\ ScanOrder(cache') = others(ScanOrder(cache))
           /\ cache'.capacity = cache.capacity]_vars

\* clearFileCache("f") has removed an entry of file "f" and the entry of
\* file "f0" is still stored with the snapshot put on it
C22_Witness ==
  /\ last.op = "clearFileCache"
  /\ last.fileKey = FileF
  /\ last.removed = {KeyFA1}
  /\ Stored(cache) = {KeyF0AD}
  /\ ValueOf(cache, KeyF0AD).data = putData[KeyF0AD]


\* C23: every depth-truncated node that a lookup hands back for a finite
\* requiredDepth >= 0 is an independently owned copy: a write to any node
\* object of the returned tree leaves every stored snapshot as it was.
C23_WriteToReturnedTreeLeavesTheStore ==
  [][(/\ last'.op = "write"
      /\ last'.requiredDepth # None
      /\ last'.requiredDepth[1] >= 0)
     => cache' = cache]_vars


\* the entry a suspended lookup is validating
Validating(pr) == pr.pc \in {"get", "find"}

\* what a stale lookup removes: its key (get), every key of its file
\* (findNodeData)
StaleTargets(pr, st) ==
  IF pr.pc = "get" THEN {pr.cacheKey} \cap Stored(st)
  ELSE {k \in Stored(st) : OfFile(k, pr.fileKey)}

\* C24: when two validated lookups (get or findNodeData) on the same stale
\* entry interleave at their validation suspension, each has made its own
\* metadata fetch, each returns not found without an error, the removal of
\* the one that settles second finds nothing to remove and changes nothing,
\* and afterwards the key is absent and every entry of other files is still
\* stored.
C24_ConcurrentStaleLookupsBothMiss ==
  [][\A p \in TwoProcs : \A q \in TwoProcs \ {p} :
       LET pr == procs[p]
           other == procs[q]
       IN /\ (/\ Validating(pr)
              /\ Validating(other)
              /\ SettledItem(pr) = SettledItem(other)
              /\ SettledItem(pr).lastTouchedAt # "")
             => pr.fetched /\ other.fetched
          /\ (/\ Validating(pr)
              /\ procs'[p] = Idle
              /\ IsStale(SettledItem(pr), last'.outcome))
             => /\ last'.ret = None
                /\ ~last'.threw
                /\ procs'[q] = other
                /\ Stored(cache') = Stored(cache) \ StaleTargets(pr, cache)
                /\ StaleTargets(pr, cache') = {}
                /\ Changed(cache, cache') = {}
                /\ StaleTargets(pr, cache) = {} => cache' = cache
                /\ \A f \in Files : \A k \in Stored(cache) :
                     (OfFile(k, f) /\ \A t \in StaleTargets(pr, cache) : ~OfFile(t, f))
                       => /\ k \in Stored(cache')
                          /\ ValueOf(cache', k) = ValueOf(cache, k)]_vars

\* the store never evicts and nothing clears it, so an entry that a
\* suspended lookup hit can only have left through the other lookup: the
\* second of two stale gets on "f:a:default" has settled, found nothing to remove
\* and returned not found, and the entry of file "f0" is still stored
C24_Witness ==
  /\ last.op = "get"
  /\ last.settled
  /\ last.proc = 2
  /\ last.key = KeyFAD
  /\ last.fetched
  /\ last.outcome = Meta(Some("T2"))
  /\ last.removed = {}
  /\ last.ret = None
  /\ ~last.threw
  /\ Stored(cache) = {KeyF0AD}
  /\ \A p \in TwoProcs : procs[p] = Idle


\* the fields of a snapshot other than its roots
SharedMetadata == {"name", "lastModified", "thumbnailUrl", "components",
                   "componentSets", "globalVars"}

\* C25: mergeNodesAsDesign(source, nodes) returns a snapshot whose roots are
\* exactly the given node list in the given order and whose name,
\* lastModified, thumbnail, component tables and style table are those of
\* source; source and every cache entry are left as they are.
C25_MergeKeepsMetadataAndSubstitutesRoots ==
  [][last'.op = "mergeNodesAsDesign"
     => /\ DOMAIN last'.ret = SharedMetadata \cup {"nodes"}
        /\ last'.ret.nodes = last'.nodes
        /\ \A field \in SharedMetadata : last'.ret[field] = last'.source[field]
        /\ last'.source \in MergeSources
        /\ cache' = cache
        /\ procs' = procs]_vars

\* two nodes in an order that differs from the source's roots were merged
\* with the metadata of a source, while the store held two entries
C25_Witness ==
  /\ last.op = "mergeNodesAsDesign"
  /\ last.source = DesignB
  /\ last.nodes = <<NodeBCut, NodeA>>
  /\ last.ret.nodes = <<NodeBCut, NodeA>>
  /\ last.ret.lastModified = "T2"
  /\ last.ret # last.source
  /\ Len(cache.cache) = 2


\* the file and the selector of the keys of the model (all keys of the model
\* have the selector "a")
SameFileAndSelector(k1, k2) == \E f \in Files : OfFile(k1, f) /\ OfFile(k2, f)

\* the entry a put removes to make room: the one touched least recently,
\* when the key is new and the store is full
EvictedByPut(st, k, history) ==
  IF ~MapHas(st.cache, k) /\ Len(st.cache) >= st.capacity /\ history # <<>>
    THEN {Head(history)}
    ELSE {}

\* C26: keys that differ only in their depth tag are independent entries: a
\* put, a get, or a validated get that fails on (file, selector, tag1)
\* leaves the entry stored under (file, selector, tag2) in place with its
\* snapshot and marker, unless the put evicts it for capacity.
C26_DepthTagsAreIndependentEntries ==
  [][last'.op \in {"put", "get"}
     => \A k2 \in Stored(cache) :
          (/\ k2 # last'.key
           /\ SameFileAndSelector(k2, last'.key)
           /\ KeyTag(k2) # KeyTag(last'.key)
           /\ ~(last'.op = "put" /\ k2 \in EvictedByPut(cache, last'.key, touched)))
          => /\ k2 \in Stored(cache')
             /\ ValueOf(cache', k2) = ValueOf(cache, k2)]_vars

\* a validated get on "f:a:1" has failed and removed its entry, and the
\* entry under "f:a:default" is still stored with the snapshot put on it
C26_Witness ==
  /\ last.op = "get"
  /\ last.settled
  /\ last.key = KeyFA1
  /\ last.removed = {KeyFA1}
  /\ last.ret = None
  /\ Stored(cache) = {KeyFAD}
  /\ ValueOf(cache, KeyFAD).data = putData[KeyFAD]


\* the nodes of a forest, the null and undefined slots passed over
RECURSIVE NodesSkippingSlots(_)
NodesSkippingSlots(forest) ==
  UNION {IF ~isNode(forest[i]) THEN {}
         ELSE {forest[i]} \cup (IF hasChildren(forest[i])
                                  THEN NodesSkippingSlots(forest[i].children)
                                  ELSE {})
         : i \in 1..Len(forest)}

\* C27: a cache lookup over stored snapshots whose node lists contain null
\* or undefined slots never raises; it returns the node with the id asked
\* for when a snapshot of the file holds one, and not found otherwise.
C27_LookupSkipsNullSlots ==
  last.op = "findNodeData" =>
    LET holders == {n \in UNION {NodesSkippingSlots(ValueOf(cache, k).data.nodes)
                                 : k \in {x \in Stored(cache) : OfFile(x, last.fileKey)}} :
                      n.id = last.nodeId}
    IN /\ ~last.threw
       /\ IF holders = {} THEN last.ret = None
          ELSE last.ret # None /\ last.ret[1] \in holders


\* every entry of file f in the store has an integer depth tag T and holds
\* the true tree source as a fetch with ceiling T returns it
TaggedFetchesOf(st, f, source) ==
  \A k \in Stored(st) :
    OfFile(k, f) => /\ KeyTag(k) # None
                    /\ ValueOf(st, k).data.nodes = Fetched(source, KeyTag(k)[1])

\* the node with the given id in the true tree
TrueNode(source, id) == {x.node : x \in {y \in Placed(source, 0) : y.node.id = id}}

\* C28: whenever findNodeData with requiredDepth absent returns a node from
\* an entry with integer depth tag T whose snapshot is the true tree cut at
\* ceiling T, the returned subtree is the node's complete subtree in the
\* true tree.
C28_TaggedAnswerIsTheCompleteSubtree ==
  \A source \in SourceTrees :
    (/\ last.op = "findNodeData"
     /\ last.requiredDepth = None
     /\ last.ret # None)
    => /\ TaggedFetchesOf(cache, last.fileKey, source)
            => last.ret[1] \in TrueNode(source, last.nodeId)
       \* in a store with other entries too, for the entry that answers
       /\ LET eligible == FirstUnbounded(cache, last.fileKey, last.nodeId)
              k == Head(eligible)
          IN (/\ eligible # <<>>
              /\ KeyTag(k) # None
              /\ ValueOf(cache, k).data.nodes = Fetched(source, KeyTag(k)[1]))
             => last.ret[1] \in TrueNode(source, last.nodeId)

\* the leaf d at level 1 was passed over in the fetch with ceiling 1, where
\* it lies at the ceiling, and answered from the fetch with ceiling 2
C28_Witness ==
  /\ last.op = "findNodeData"
  /\ last.requiredDepth = None
  /\ last.fileKey = FileF
  /\ last.nodeId = IdD
  /\ ScanOrder(cache) = <<KeyFA1, KeyFA2>>
  /\ TaggedFetchesOf(cache, FileF, <<NodeAWide, NodeE>>)
  /\ last.ret = Some(NodeD)


\* every entry of file f in the store holds the true tree source as the
\* fetch its key names returns it: cut at ceiling T under an integer depth
\* tag T, complete under the tag "default"
FetchesOf(st, f, source) ==
  \A k \in Stored(st) :
    OfFile(k, f) =>
      ValueOf(st, k).data.nodes =
        (IF KeyTag(k) = None THEN source ELSE Fetched(source, KeyTag(k)[1]))

\* C29: an entry answers a findNodeData query with a finite requiredDepth d
\* only when its stored depth is sufficient: over snapshots that are the
\* true tree cut at their depth tag, the returned node is the true node
\* limited to depth d, with every descendant within d levels of it.
C29_BoundedAnswerIsTheTrueNodeLimited ==
  \A source \in SourceTrees :
    (/\ last.op = "findNodeData"
     /\ last.requiredDepth # None
     /\ last.ret # None
     /\ FetchesOf(cache, last.fileKey, source))
    => last.ret[1] \in {CutAt(n, last.requiredDepth[1]) : n \in TrueNode(source, last.nodeId)}


\* the complete subtree of a node of the remote file
RemoteNode(id) == {x.node : x \in {y \in Placed(RemoteTree, 0) : y.node.id = id}}

\* C30: over any sequence of getNode calls with the cache enabled on a
\* remote file that does not change, a getNode call with depth absent
\* returns, for every requested node id, the node's complete subtree of the
\* remote tree, also after calls with finite depths have written merged
\* snapshots built from depth-limited cache hits.
C30_UnboundedGetNodeReturnsCompleteSubtrees ==
  (last.op = "getNode" /\ last.depth = None) =>
    LET ids == splitComma(last.nodeIds, <<>>)
    IN /\ Len(last.ret.nodes) = Len(ids)
       /\ \A i \in 1..Len(ids) : last.ret.nodes[i] \in RemoteNode(ids[i])


\* the store that holds the entries of st in the recency order of st and was
\* built by putting them, the least recently used first, into a new store
\* of the same capacity
RECURSIVE PutAll(_, _, _)
PutAll(st, keys, values) ==
  IF keys = <<>> THEN st
  ELSE PutAll(lruPut(st, Head(keys), values[Head(keys)].value).st, Tail(keys), values)
LeastRecentFirst(st) ==
  LET chain == RecencyChain(st)
  IN [i \in 1..Len(chain) |-> chain[Len(chain) + 1 - i]]
RebuiltByRecency(st) == PutAll(NewLRU(st.capacity), LeastRecentFirst(st), st.node)

\* C31: findNodeData is a function of the entries of the store and their
\* recency order: the store reached by any history answers a query as the
\* store does that holds the same entries in the same recency order and was
\* built by puts alone.
C31_SameEntriesSameRecencySameAnswer ==
  last.op = "findNodeData" =>
    LET twin == RebuiltByRecency(cache)
    IN (/\ Stored(twin) = Stored(cache)
        /\ \A k \in Stored(cache) : ValueOf(twin, k) = ValueOf(cache, k)
        /\ RecencyChain(twin) = RecencyChain(cache))
       => last.ret = findCall(twin, last.fileKey, last.nodeId, FALSE, last.requiredDepth).ret


\* `${depth || "default"}` of the exact key
TagText(depth) ==
  IF depth = None \/ depth[1] = 0 THEN <<"d", "e", "f", "a", "u", "l", "t">>
  ELSE <<DigitString[depth[1] + 1]>>
ExactKey(f, ids, depth) == f \o <<":">> \o ids \o <<":">> \o TagText(depth)

\* C32: with the cache enabled and the exact key not stored, getNode asks
\* the remote tree fetch for exactly the ids of the miss list of
\* findMultipleNodes, in that order, in one request, and makes no request
\* when the miss list is empty; it returns, and the snapshot it returns is
\* then stored under "<fileKey>:<nodeIds>:<depth or default>".
C32_GetNodeFetchesExactlyTheMisses ==
  [][(/\ last'.op = "getNode"
      /\ ~MapHas(cache.cache, ExactKey(last'.fileKey, last'.nodeIds, last'.depth)))
     => LET key == ExactKey(last'.fileKey, last'.nodeIds, last'.depth)
            m == findMultipleNodesRun(cache, last'.fileKey, splitComma(last'.nodeIds, <<>>),
                                      1, last'.depth, last'.outcome,
                                      [cachedNodes |-> <<>>, missingNodeIds |-> <<>>,
                                       sourceDesign |-> None])
        IN /\ ~last'.exactHit
           /\ last'.missingNodeIds = m.missingNodeIds
           /\ IF m.missingNodeIds = <<>>
                THEN last'.requests = <<>>
                ELSE /\ Len(last'.requests) = 1
                     /\ splitComma(last'.requests[1], <<>>) = m.missingNodeIds
           /\ MapHas(cache'.cache, key)
           /\ ValueOf(cache', key).data = last'.ret]_vars

\* getNode("f", "c,b") over a store that holds c and not b has asked the
\* remote for b alone and stored the two nodes under "f:c,b:default"
C32_Witness ==
  /\ last.op = "getNode"
  /\ last.nodeIds = IdsCB
  /\ last.depth = None
  /\ last.missingNodeIds = <<IdB>>
  /\ last.requests = <<IdB>>
  /\ IdsOf(last.ret.nodes) = <<IdC, IdB>>
  /\ ValueOf(cache, ExactKey(FileF, IdsCB, None)).data = last.ret


\* C33: a failed freshness check spares what was written while it was
\* outstanding: when a put under the key of a suspended get, or under a key
\* of the file of a suspended findNodeData, is the step before the lookup
\* finishes with a stale verdict, the entry it wrote is still stored with
\* the value it wrote.
C33_StaleVerdictSparesLaterPuts ==
  [][\A p \in DOMAIN procs :
       (/\ last.op = "put"
        /\ Validating(procs[p])
        /\ last'.op \in {"get", "findNodeData"}
        /\ last'.settled
        /\ last'.proc = p
        /\ IsStale(SettledItem(procs[p]), last'.outcome)
        /\ IF procs[p].pc = "get" THEN last.key = procs[p].cacheKey
           ELSE OfFile(last.key, procs[p].fileKey))
       => /\ last.key \in Stored(cache')
          /\ ValueOf(cache', last.key) = last.item]_vars


\* C34: whenever findMultipleNodes returns a non-empty hit list, its source
\* snapshot is not null, whatever cache operations were taken at its
\* suspension points.
C34_HitsComeWithASource ==
  (/\ last.op = "findMultipleNodes"
   /\ last.done
   /\ last.ret.cachedNodes # <<>>)
  => last.ret.sourceDesign # None


\* the versions of the remote file the nodes of a forest were taken from: a
\* node of the edited file carries its new name
VersionsIn(forest) ==
  {IF "name" \in DOMAIN x.node THEN 2 ELSE 1 : x \in Placed(forest, 0)}

\* C35: every snapshot getNode returns and stores consists of nodes of one
\* version of the remote file, and the freshness marker stored with it is
\* that of this version, also when the file is edited while getNode waits
\* for the nodes it did not find in the cache.
C35_SnapshotIsOfOneVersion ==
  (last.op = "getNode" /\ last.done) =>
    \E v \in {1, 2} :
      /\ VersionsIn(last.ret[1].nodes) = {v}
      /\ MapHas(cache.cache, last.cacheKey)
           => /\ VersionsIn(ValueOf(cache, last.cacheKey).data.nodes) = {v}
              /\ ValueOf(cache, last.cacheKey).lastTouchedAt = RemoteFile(v).lastModified


\* C36: the marker getNode stores with an entry is the one the validator
\* compares: in the state a getNode call leaves, with the remote file
\* unchanged, the identical call passes validation and returns the cached
\* snapshot without a remote tree request.
C36_RepeatedGetNodeIsServedFromTheCache ==
  last.op = "getNode" =>
    LET again == getNode(cache, last.fileKey, last.nodeIds, last.depth,
                         Meta(Some(procs.remote.last_touched_at)))
    IN /\ again.exactHit
       /\ again.requests = <<>>
       /\ again.ret = Some(last.ret)


\* the steps of findNodeData and findMultipleNodes
LookupOps == {"findNodeData", "findMultipleNodes", "findMultipleNodes.findNodeData"}

\* the keys a put of k removes from st
EvictedBy(st, k) == Removed(st, lruPut(st, k, CacheItem(DesignB, "T1")).st)

\* C37: no step of findNodeData or findMultipleNodes changes the recency
\* order of the store: the entries it leaves keep their order (it removes
\* entries only on a stale verdict), and a step that removes nothing, as
\* every step of a hit, promotes no entry and leaves the store as it was,
\* so that the next put of any key evicts what it would have evicted
\* without the lookup.
C37_LookupsKeepTheRecencyOrder ==
  [][last'.op \in LookupOps
     => /\ RecencyChain(cache')
             = SelectSeq(RecencyChain(cache), LAMBDA k : MapHas(cache'.cache, k))
        /\ ("ret" \in DOMAIN last' /\ last'.op = "findNodeData" /\ last'.ret # None)
             => Removed(cache, cache') = {}
        /\ Removed(cache, cache') = {}
             => /\ cache' = cache
                /\ \A k \in Keys : EvictedBy(cache', k) = EvictedBy(cache, k)]_vars

\* a validated findNodeData has returned a node of an entry that is not the
\* most recently used one, from a full store of two entries
C37_Witness ==
  /\ last.op = "findNodeData"
  /\ last.settled
  /\ last.ret # None
  /\ cache.capacity = 2
  /\ Len(cache.cache) = 2
  /\ findNodeInCache(cache, last.fileKey, IdC, None) # None
  /\ findNodeInCache(cache, last.fileKey, IdC, None)[1].cacheItem
       # ValueOf(cache, cache.head)


\* C38: the snapshot getNode returns when it combines cache hits with nodes
\* it fetched is coherent: its component table holds the entries of the
\* remote response (and of the snapshots its hits came from), so that every
\* component id a returned node refers to resolves in the returned table.
C38_CombinedSnapshotResolvesItsReferences ==
  (last.op = "getNode" /\ last.fetched /\ last.cachedNodes # <<>>)
    => /\ last.apiResponse[1].components \subseteq last.ret.components
       /\ componentIdsOf(last.cachedNodes) \subseteq last.ret.components
       /\ componentIdsOf(last.ret.nodes) \subseteq last.ret.components


\* the lookup is suspended on a metadata fetch
WaitsOnRemote(pr) == pr.pc \in {"get", "find", "multi.validate"} /\ pr.fetched

\* C39: every get, findNodeData and findMultipleNodes call returns, given
\* that each metadata fetch it starts resolves or rejects; a get or
\* findNodeData without validation returns in the step of the call, a
\* findMultipleNodes without validation never suspends on a validation, and
\* no call waits on a metadata fetch for an entry whose marker is empty.
C39_EveryLookupReturns ==
  /\ \A p \in Procs : (procs[p] # Idle) ~> (procs[p] = Idle)
  /\ [](\A p \in Procs :
          /\ procs[p].pc = "multi.validate" => procs[p].validate
          /\ WaitsOnRemote(procs[p]) => SettledItem(procs[p]).lastTouchedAt # "")
  /\ [][(last'.op \in {"get", "findNodeData"} /\ ~last'.settled /\ ~last'.validate)
          => (last'.done /\ ~last'.fetched /\ procs' = procs)]_vars

\* a get that waited for its metadata fetch has returned after the fetch
\* was rejected
C39_Witness ==
  /\ last.op = "get"
  /\ last.settled
  /\ last.fetched
  /\ last.outcome = Rejected
  /\ last.done
  /\ procs[last.proc] = Idle


\* the keys met by following next from head, one step further than the key
\* map has entries
ChainOfNext(st) == chainFrom(st, st.head, Len(st.cache) + 1)

\* C40: after any sequence of put, get, delete and clear the recency chain
\* and the key map of the eviction store agree: following next from head
\* visits exactly the keys of the map, each once, and ends at tail; prev
\* mirrors next; head and tail are null exactly when the map is empty.
C40_ChainAndMapAgree ==
  LET chain == ChainOfNext(cache)
  IN /\ DOMAIN cache.node = MapKeys(cache.cache)
     /\ Len(chain) = Len(cache.cache)
     /\ {chain[i] : i \in 1..Len(chain)} = MapKeys(cache.cache)
     /\ chain # <<>>
          => /\ chain[Len(chain)] = cache.tail
             /\ cache.node[cache.head].prev = Null
             /\ cache.node[cache.tail].next = Null
     /\ \A i \in 1..(Len(chain) - 1) : cache.node[chain[i + 1]].prev = chain[i]
     /\ (cache.head = Null) <=> (cache.cache = <<>>)
     /\ (cache.tail = Null) <=> (cache.cache = <<>>)

\* a get has moved the entry inserted first, the tail of a chain of two, to
\* the head
C40_Witness ==
  /\ last.op = "lru.get"
  /\ last.ret # None
  /\ Len(cache.cache) = 2
  /\ cache.head = last.key
  /\ cache.cache[1] = last.key
  /\ cache.tail = cache.cache[2]
  /\ ChainOfNext(cache) = <<cache.cache[1], cache.cache[2]>>

====
